---------------------------- MODULE Spec2Model ----------------------------
(***************************************************************************)
(* ScanSage-MCP: the PUBLIC Nmap ingestion pipeline.                       *)
(*                                                                         *)
(* A text (a Python str) is a sequence of atoms: an atom is a maximal run  *)
(* of the string that the regular expressions of the program treat as a    *)
(* unit (a word, a number, an address, a markup declaration).  The regular *)
(* expressions are modelled by what they match on the atoms of the         *)
(* vocabulary below; re.IGNORECASE and str.lower() by the case tables.     *)
(***************************************************************************)
EXTENDS Integers, Sequences, FiniteSets, TLC

VARIABLES
    env,            \* os.environ: the variables the pipeline reads
    store,          \* contents of RECORD_FILE (nmap_ingest_records.json)
    events,         \* cap_audit._EVENTS, the in-memory audit buffer
    next_uuid,      \* source of uuid.uuid4()
    pc,             \* position of the request being served
    request,        \* the request mapping being served
    parser,         \* the parser object ingest_nmap_public runs
    limit_config,   \* ingest_nmap_public's limit_config local
    tracker,        \* MinimalNmapXmlParser.parse: its _LimitTracker
    findings,       \* the parser's findings list
    host_index,     \* index of the host element being walked (1-based here)
    port_index,     \* index of the port element being walked (1-based here)
    ports_seen,     \* MinimalNmapXmlParser.parse: ports_seen of this host
    parser_result,  \* the ParsedNmapResult, <<>> before the parser returns
    returned,       \* ingest_nmap_public's final_findings of the last ingestion
    response,       \* <<r>>: what the resource called last returned
    store_before,   \* history: the store when the current request arrived
    events_before,  \* history: the audit buffer when the request arrived
    log,            \* history: the ingest requests served, with the response of each
    marked,         \* history: the arguments of the tracker's mark_limit calls
    audit_max_bytes,    \* AuditConfig.max_bytes of the config in force, <<>> for None
    warning_interval,   \* audit_log._WARNING_INTERVAL_SECONDS
    monotonic,          \* time.monotonic()
    disk_faults,        \* the file operations of the audit log that fail at present
    response_schema,    \* the PUBLIC response schema document of the registry
    audit_file,     \* audit.jsonl: <<>> when absent, else <<its lines>>
    audit_backup,   \* audit.jsonl.1: <<>> when absent, else <<its lines>>
    last_warn,      \* audit_log._LAST_WARN
    warnings,       \* the warnings audit_log has logged: [key, at]
    rotation,       \* an append_audit_event call in progress, step by step
    writers         \* the persist_ingest_record calls in progress, by process

vars == <<env, store, events, next_uuid, pc, request, parser, limit_config,
          tracker, findings, host_index, port_index, ports_seen,
          parser_result, returned, response, store_before, events_before,
          log, marked, audit_max_bytes, warning_interval, monotonic, disk_faults,
          response_schema, audit_file, audit_backup, last_warn, warnings,
          rotation, writers>>

\* what the service finds around it and does not change itself
surroundings == <<audit_max_bytes, warning_interval, monotonic, disk_faults, response_schema>>

\* the durable audit log and the warning state of audit_log
auditLog == <<audit_file, audit_backup, last_warn, warnings>>

\* the calls that are followed step by step
inProgress == <<rotation, writers>>

---------------------------------------------------------------------------
(* Bounds of the model *)

\* ingest requests served in one behaviour of Spec
MaxRequests == 2
\* ingest requests served in one behaviour of SpecRepeat
MaxRepeats == 3
\* host elements of a generated document (SpecParse)
MaxDocHosts == 3
\* findings of an arbitrary parser result (SpecLimit)
MaxRawFindings == 3

---------------------------------------------------------------------------
(* Program constants *)

DEFAULT_MAX_NMAP_XML_BYTES == 32768
DEFAULT_MAX_NMAP_HOSTS == 64
DEFAULT_MAX_NMAP_PORTS_PER_HOST == 128
DEFAULT_MAX_NMAP_FINDINGS == 100
MAX_STORED_RECORDS == 16

NEXT_STEPS ==
    << "Await a dedicated parser before acting on any findings.",
       "Confirm the ingestion digest matches downstream expectations." >>

EVENT_NAME == "NMAP_INGEST_CAP_APPLIED"

PAYLOAD_TOO_LARGE == "payload_too_large"
INVALID_INPUT == "invalid_input"
RESPONSE_VALIDATION_FAILED == "response_validation_failed"
RECORD_NOT_FOUND == "record_not_found"

\* CapReason
MAX_HOSTS == "MAX_HOSTS"
MAX_PORTS == "MAX_PORTS"
MAX_FINDINGS == "MAX_FINDINGS"
MAX_PAYLOAD_BYTES == "MAX_PAYLOAD_BYTES"
CapReason == {MAX_HOSTS, MAX_PORTS, MAX_FINDINGS, MAX_PAYLOAD_BYTES}
\* a CapReason | None that is None
None == "None"

NMAP_XML_FORMAT == "nmap_xml"
SYNTHETIC_FORMAT == "synthetic_v1"

---------------------------------------------------------------------------
(* The vocabulary of atoms, and the character-level facts about them *)

IPv4Atoms == {"192.0.2.1"}
IPv6Atoms == {"2001:db8::1"}
IPv6CompressedAtoms == {"fe80::"}
MacAtoms == {"AA:BB:CC:DD:EE:FF"}
HostnameAtoms == {"router.example.com"}
RawPathAtoms == {"/home/", "../"}
UnsafeMarkers == {"<!DOCTYPE", "<!ENTITY"}
MarkerAtoms == {"<!DOCTYPE", "<!doctype", "<!DocType", "<!ENTITY", "<!entity"}

\* str.upper() / str.lower() on the atoms whose case matters
ToUpper(a) ==
    CASE a \in {"<!doctype", "<!DocType"} -> "<!DOCTYPE"
      [] a = "<!entity" -> "<!ENTITY"
      [] a = "port_open" -> "PORT_OPEN"
      [] OTHER -> a

ToLower(a) ==
    CASE a = "TCP" -> "tcp"
      [] a = "OPEN" -> "open"
      [] a = "SSH" -> "ssh"
      [] a = "/TCP" -> "/tcp"
      [] a = "REAL_MINIMAL" -> "real_minimal"
      [] a = "Safe_Xml" -> "safe_xml"
      [] a = "TRUE" -> "true"
      [] a = "Yes" -> "yes"
      [] a = "AA:BB:CC:DD:EE:FF" -> "aa:bb:cc:dd:ee:ff"
      [] a = "<!DOCTYPE" -> "<!doctype"
      [] a = "<!ENTITY" -> "<!entity"
      [] OTHER -> a

\* int(text): <<n>> when text is a decimal integer, <<>> on ValueError
IntOf(a) ==
    CASE a = "0" -> <<0>>
      [] a = "1" -> <<1>>
      [] a = "2" -> <<2>>
      [] a = "3" -> <<3>>
      [] a = "4" -> <<4>>
      [] a = "-1" -> <<-1>>
      [] a = "16" -> <<16>>
      [] a = " 2 " -> <<2>>
      [] a = "22" -> <<22>>
      [] a = "80" -> <<80>>
      [] a = "443" -> <<443>>
      [] a = "123456" -> <<123456>>
      [] OTHER -> <<>>

\* rank of a string in Python's str ordering (code points), on the service names
StrRank(s) ==
    CASE s = "" -> 0
      [] s = "2001:db8::1" -> 1
      [] s = "http" -> 2
      [] s = "https" -> 3
      [] s = "router.example.com" -> 4
      [] s = "ssh" -> 5
      [] OTHER -> 6

---------------------------------------------------------------------------
(* Sequence helpers *)

RECURSIVE MapSeq(_, _)
MapSeq(Op(_), s) ==
    IF s = <<>> THEN <<>> ELSE <<Op(Head(s))>> \o MapSeq(Op, Tail(s))

RECURSIVE FlattenSeq(_)
FlattenSeq(ss) ==
    IF ss = <<>> THEN <<>> ELSE Head(ss) \o FlattenSeq(Tail(ss))

Range(s) == {s[i] : i \in DOMAIN s}

Prefix(s, n) == SubSeq(s, 1, IF n < Len(s) THEN n ELSE Len(s))

\* the last n elements of s: s[-n:]
Suffix(s, n) == IF n >= Len(s) THEN s ELSE SubSeq(s, Len(s) - n + 1, Len(s))

RECURSIVE Reverse(_)
Reverse(s) == IF s = <<>> THEN <<>> ELSE Append(Reverse(Tail(s)), Head(s))

\* all sequences over S of length at most n
RECURSIVE SeqsUpTo(_, _)
SeqsUpTo(S, n) ==
    IF n = 0 THEN {<<>>}
    ELSE LET shorter == SeqsUpTo(S, n - 1)
         IN  shorter \cup {Append(s, x) : s \in {t \in shorter : Len(t) = n - 1}, x \in S}

---------------------------------------------------------------------------
(* sanitizer.py *)

\* the five fragments of IDENTIFIER_PATTERNS, compiled with re.IGNORECASE
IDENTIFIER_PATTERNS ==
    << IPv4Atoms,
       IPv6Atoms,
       IPv6CompressedAtoms,
       {"aa:bb:cc:dd:ee:ff"},
       HostnameAtoms >>

\* IDENTIFIER_PATTERN.search on one atom
IDENTIFIER_PATTERN(a) ==
    \E i \in DOMAIN IDENTIFIER_PATTERNS :
        a \in IDENTIFIER_PATTERNS[i] \/ ToLower(a) \in IDENTIFIER_PATTERNS[i]

\* IDENTIFIER_PATTERN.search on a text
IdentifierSearch(value) == \E i \in DOMAIN value : IDENTIFIER_PATTERN(value[i])

RedactAtom(a) == IF IDENTIFIER_PATTERN(a) THEN "[redacted]" ELSE a

redact_identifiers(value) == MapSeq(RedactAtom, value)

RAW_PATH_PATTERN(a) == a \in RawPathAtoms

ScrubPathAtom(a) == IF RAW_PATH_PATTERN(a) THEN "[redacted]" ELSE a

scrub_value(value) == redact_identifiers(MapSeq(ScrubPathAtom, value))

\* sanitize_public_response on the three-key mapping _sanitized_error builds
sanitize_public_response(payload) ==
    [key \in DOMAIN payload |-> scrub_value(payload[key])]

---------------------------------------------------------------------------
(* nmap_limits.py *)

Unset == "<unset>"

\* not raw or not raw.strip()
IsBlank(raw) == raw \in {Unset, "", "   "}

\* the same with zero taken as a limit
env_int_accepts_zero(raw, default, min_value) ==
    IF IsBlank(raw) THEN default
    ELSE IF IntOf(raw) = <<>> THEN default
    ELSE IF IntOf(raw)[1] < 0 THEN default
    ELSE IntOf(raw)[1]

\* _env_int(name, default, min_value=...); no caller passes max_value
env_int(raw, default, min_value) ==
    IF IsBlank(raw) THEN default
    ELSE IF IntOf(raw) = <<>> THEN default
    ELSE IF IntOf(raw)[1] < min_value THEN default
    ELSE IntOf(raw)[1]

\* NmapLimitConfig.from_env, reading the environment e
from_env(e) ==
    [ max_xml_bytes |->
          env_int(e.SCANSAGE_MAX_NMAP_XML_BYTES, DEFAULT_MAX_NMAP_XML_BYTES, 1),
      max_hosts |->
          env_int(e.SCANSAGE_MAX_NMAP_HOSTS, DEFAULT_MAX_NMAP_HOSTS, 1),
      max_ports_per_host |->
          env_int(e.SCANSAGE_MAX_NMAP_PORTS_PER_HOST, DEFAULT_MAX_NMAP_PORTS_PER_HOST, 1),
      max_findings |->
          env_int(e.SCANSAGE_MAX_NMAP_FINDINGS, DEFAULT_MAX_NMAP_FINDINGS, 1) ]

DEFAULT_NMAP_LIMITS ==
    [ max_xml_bytes |-> DEFAULT_MAX_NMAP_XML_BYTES,
      max_hosts |-> DEFAULT_MAX_NMAP_HOSTS,
      max_ports_per_host |-> DEFAULT_MAX_NMAP_PORTS_PER_HOST,
      max_findings |-> DEFAULT_MAX_NMAP_FINDINGS ]

\* nmap_ingest.MAX_PAYLOAD_BYTES
MAX_PAYLOAD_BYTES_DEFAULT == DEFAULT_NMAP_LIMITS.max_xml_bytes

---------------------------------------------------------------------------
(* Payloads.  A payload string is described by what the pipeline reads of   *)
(* it: its length in characters and in UTF-8 bytes, the atoms of its text   *)
(* outside the element tree (prolog, comments), whether an XML parser       *)
(* accepts it, the host elements of its tree in document order, and its     *)
(* lines as the synthetic parser splits them.                               *)

\* a service element: its attributes, "" for an absent one
Service(name, product, version, extrainfo) ==
    [name |-> name, product |-> product, version |-> version, extrainfo |-> extrainfo]

\* a port element: protocol and portid attributes ("" when absent), the state
\* attribute of its state child (<<>> when there is no state child), and its
\* service child (<<>> when there is none)
Port(protocol, state, portid, service) ==
    [protocol |-> protocol, state |-> state, portid |-> portid, service |-> service]

\* a host element: the state of its status child ("" when absent), the addr
\* of its address child, and the port children of its first ports child
\* (<<>> when it has no ports child, <<ports>> otherwise)
Host(status, addr, ports) == [status |-> status, addr |-> addr, ports |-> ports]

pSsh == Port("tcp", <<"open">>, "22", <<Service("ssh", "OpenSSH", "7.4", "")>>)
pHttp == Port("tcp", <<"open">>, "80", <<Service("http", "router.example.com", "", "")>>)
pHttps == Port("TCP", <<"OPEN">>, "443", <<Service("https", "", "", "AA:BB:CC:DD:EE:FF")>>)
pClosed == Port("tcp", <<"closed">>, "22", <<Service("ssh", "", "", "")>>)
pUdp == Port("udp", <<"open">>, "80", <<Service("http", "", "", "")>>)
pNoState == Port("tcp", <<>>, "22", <<Service("ssh", "", "", "")>>)
pNoPortId == Port("tcp", <<"open">>, "", <<Service("ssh", "", "", "")>>)
pNoService == Port("tcp", <<"open">>, "443", <<>>)
pNoName == Port("tcp", <<"open">>, "443", <<Service("", "OpenSSH", "", "")>>)
pIdPort == Port("tcp", <<"open">>, "192.0.2.1", <<Service("2001:db8::1", "", "fe80::", "")>>)

hUp == Host("up", "192.0.2.1", <<<<pSsh>>>>)
hDown == Host("down", "2001:db8::1", <<<<pHttp>>>>)
hPlain == Host("", "router.example.com", <<<<pHttps>>>>)
hNoPorts == Host("up", "192.0.2.1", <<>>)
hFiltered == Host("up", "AA:BB:CC:DD:EE:FF", <<<<pClosed, pUdp, pNoService, pSsh>>>>)
hSkips == Host("up", "fe80::", <<<<pNoState, pNoPortId, pNoName>>>>)
hIds == Host("up", "192.0.2.1", <<<<pIdPort, pHttp, pHttps>>>>)

Payload(chars, bytes, text, wellformed, hosts, lines) ==
    [chars |-> chars, bytes |-> bytes, text |-> text, wellformed |-> wellformed,
     hosts |-> hosts, lines |-> lines]

\* an XML document with these hosts; its one line is no synthetic line
XmlDoc(hosts) ==
    Payload(12, 12, <<"<nmaprun>">>, TRUE, hosts, <<<<"<nmaprun>">>>>)

\* the identifier-shaped atoms present anywhere in a payload
PortAtoms(p) ==
    {p.portid} \cup
    UNION {{p.service[i].name, p.service[i].product, p.service[i].version,
            p.service[i].extrainfo} : i \in DOMAIN p.service}

HostAtoms(h) ==
    {h.addr} \cup UNION {UNION {PortAtoms(h.ports[i][j]) : j \in DOMAIN h.ports[i]}
                         : i \in DOMAIN h.ports}

PayloadAtoms(p) ==
    Range(p.text) \cup UNION {HostAtoms(p.hosts[i]) : i \in DOMAIN p.hosts}
        \cup UNION {Range(p.lines[i]) : i \in DOMAIN p.lines}

PayloadIdentifiers(p) == {a \in PayloadAtoms(p) : IDENTIFIER_PATTERN(a)}

---------------------------------------------------------------------------
(* nmap_parser.py *)

\* a raised ValueError carrying msg, a raised PayloadTooLargeError (a subclass
\* of ValueError), and a normal return of value
Raise(msg) == [raised |-> TRUE, kind |-> "ValueError", msg |-> msg, value |-> <<>>]
RaiseTooLarge(msg) ==
    [raised |-> TRUE, kind |-> "PayloadTooLargeError", msg |-> msg, value |-> <<>>]
Return(value) == [raised |-> FALSE, kind |-> "", msg |-> "", value |-> value]

\* the same search without re.IGNORECASE
UNSAFE_XML_PATTERN_case_sensitive(p) == \E a \in PayloadAtoms(p) : a \in UnsafeMarkers

\* _UNSAFE_XML_PATTERN.search(xml_text): <!DOCTYPE or <!ENTITY, re.IGNORECASE
UNSAFE_XML_PATTERN(p) == \E a \in PayloadAtoms(p) : ToUpper(a) \in UnsafeMarkers

\* parse_xml_safely: the root's host elements, or ValueError
parse_xml_safely(p, e) ==
    IF p.bytes > from_env(e).max_xml_bytes
    THEN Raise("XML payload exceeds the maximum allowed size.")
    ELSE IF UNSAFE_XML_PATTERN(p)
    THEN Raise("XML payload contains forbidden declarations.")
    ELSE IF ~p.wellformed
    THEN Raise("Malformed XML payload.")
    ELSE Return(p.hosts)

\* a ParsedFinding whose __post_init__ redacts the detail only
ParsedFinding_title_kept(title, detail, confidence, sort_key) ==
    [ title |-> title,
      detail |-> redact_identifiers(detail),
      confidence |-> confidence,
      sort_key |-> sort_key ]

\* ParsedFinding(...): __post_init__ redacts title and detail
ParsedFinding(title, detail, confidence, sort_key) ==
    [ title |-> redact_identifiers(title),
      detail |-> redact_identifiers(detail),
      confidence |-> confidence,
      sort_key |-> sort_key ]

\* ParsedFinding.to_mapping
to_mapping(f) == [title |-> f.title, detail |-> f.detail, confidence |-> f.confidence]

CapInfo(reason, hosts_processed, ports_processed, findings_processed, max_hosts, max_ports_per_host, max_findings) ==
    [ reason |-> reason,
      hosts_processed |-> hosts_processed,
      ports_processed |-> ports_processed,
      findings_processed |-> findings_processed,
      max_hosts |-> max_hosts,
      max_ports_per_host |-> max_ports_per_host,
      max_findings |-> max_findings ]

\* CapInfo.capped
capped(cap_info) == cap_info.reason # None

\* cap_info is <<>> for None, <<info>> otherwise
ParsedNmapResult(parsed, fs, parser_version, cap_info) ==
    [parsed |-> parsed, findings |-> fs, parser_version |-> parser_version,
     cap_info |-> cap_info]

NOOP_VERSION == "noop-0.1"
SYNTHETIC_VERSION == "synthetic_v1"
SAFE_XML_VERSION == "safe-xml-0.1"
REAL_MINIMAL_VERSION == "real-minimal-0.2"

\* NoopNmapParser.parse
NoopParse(p) == Return(ParsedNmapResult(FALSE, <<>>, NOOP_VERSION, <<>>))

\* SyntheticNmapParser._PORT_PATTERN.match on a stripped line:
\* ^PORT_OPEN\s+(\d{1,5})/tcp\s+service=([a-z]+)$ with re.IGNORECASE
IsPortDigits(a) == IntOf(a) # <<>> /\ IntOf(a)[1] >= 0 /\ IntOf(a)[1] <= 99999
IsLetters(a) == a \in {"ssh", "SSH", "http", "https"}
PORT_PATTERN(line) ==
    /\ Len(line) = 5
    /\ ToUpper(line[1]) = "PORT_OPEN"
    /\ IsPortDigits(line[2])
    /\ ToLower(line[3]) = "/tcp"
    /\ line[4] = "service="
    /\ IsLetters(line[5])

\* the loop passing over every line that does not match
RECURSIVE SyntheticLines_skips_malformed(_, _, _)
SyntheticLines_skips_malformed(lines, i, fs) ==
    IF i > Len(lines) THEN Return(fs)
    ELSE IF lines[i] = <<>> \/ IdentifierSearch(lines[i]) \/ ~PORT_PATTERN(lines[i])
    THEN SyntheticLines_skips_malformed(lines, i + 1, fs)
    ELSE LET port == lines[i][2]
             service == ToLower(lines[i][5])
         IN  SyntheticLines_skips_malformed(lines, i + 1,
                 Append(fs, ParsedFinding(<<"Port", port, "open">>,
                                          <<service, "service noted on TCP/", port>>,
                                          "medium",
                                          <<0, Len(fs), IntOf(port)[1], service>>)))

\* the loop of SyntheticNmapParser.parse over the lines from position i on,
\* with the findings collected so far
RECURSIVE SyntheticLines(_, _, _)
SyntheticLines(lines, i, fs) ==
    IF i > Len(lines) THEN Return(fs)
    ELSE IF lines[i] = <<>> THEN SyntheticLines(lines, i + 1, fs)
    ELSE IF IdentifierSearch(lines[i]) THEN SyntheticLines(lines, i + 1, fs)
    ELSE IF ~PORT_PATTERN(lines[i]) THEN Raise("Synthetic payload line malformed.")
    ELSE LET port == lines[i][2]
             service == ToLower(lines[i][5])
             line_index == Len(fs)
         IN  SyntheticLines(lines, i + 1,
                 Append(fs, ParsedFinding(<<"Port", port, "open">>,
                                          <<service, "service noted on TCP/", port>>,
                                          "medium",
                                          <<0, line_index, IntOf(port)[1], service>>)))

\* SyntheticNmapParser.parse
SyntheticParse(p) ==
    IF p.bytes = 0
    THEN Return(ParsedNmapResult(FALSE, <<>>, SYNTHETIC_VERSION, <<>>))
    ELSE LET r == SyntheticLines(p.lines, 1, <<>>)
         IN  IF r.raised THEN r
             ELSE Return(ParsedNmapResult(r.value # <<>>, r.value, SYNTHETIC_VERSION, <<>>))

\* SafeNmapXmlParser.parse
SafeXmlParse(p, e) ==
    LET root == parse_xml_safely(p, e)
    IN  IF root.raised THEN root
        ELSE Return(ParsedNmapResult(FALSE, <<>>, SAFE_XML_VERSION, <<>>))

\* the non-empty ones of the given strings, in order
RECURSIVE NonEmpty(_)
NonEmpty(parts) ==
    IF parts = <<>> THEN <<>>
    ELSE IF Head(parts) = "" THEN NonEmpty(Tail(parts))
    ELSE <<Head(parts)>> \o NonEmpty(Tail(parts))

\* MinimalNmapXmlParser._finding_from_port: <<>> for None, <<finding>> otherwise;
\* host_index and port_index are enumerate's, from 0
finding_from_port(port_elem, hi, pi) ==
    IF ToLower(port_elem.protocol) # "tcp" THEN <<>>
    ELSE IF port_elem.state = <<>> \/ ToLower(port_elem.state[1]) # "open" THEN <<>>
    ELSE IF port_elem.portid = "" THEN <<>>
    ELSE IF port_elem.service = <<>> THEN <<>>
    ELSE IF port_elem.service[1].name = "" THEN <<>>
    ELSE LET svc == port_elem.service[1]
             port_id == port_elem.portid
             detail_parts == <<svc.name>> \o NonEmpty(<<svc.product, svc.version, svc.extrainfo>>)
             port_number == IF IntOf(port_id) = <<>> THEN 0 ELSE IntOf(port_id)[1]
         IN  << ParsedFinding(<<"Port", port_id, "open">>,
                              detail_parts \o <<"service noted on TCP/", port_id>>,
                              "medium",
                              <<hi, pi, port_number, ToLower(svc.name)>>) >>

\* a tracker that lets one port more through per host
LimitTracker_one_more_port(config) ==
    [ max_hosts |-> config.max_hosts,
      max_ports_per_host |-> config.max_ports_per_host + 1,
      max_findings |-> config.max_findings,
      hosts_processed |-> 0,
      ports_processed |-> 0,
      findings_processed |-> 0,
      cap_reason |-> None ]

\* a tracker that is not constructed anew: it takes the limits and keeps the
\* counts and the reason of the parse before
LimitTracker_kept(config) ==
    [ tracker EXCEPT !.max_hosts = config.max_hosts,
                     !.max_ports_per_host = config.max_ports_per_host,
                     !.max_findings = config.max_findings ]

\* a tracker that takes the default for max_findings
LimitTracker_default_max_findings(config) ==
    [ max_hosts |-> config.max_hosts,
      max_ports_per_host |-> config.max_ports_per_host,
      max_findings |-> DEFAULT_MAX_NMAP_FINDINGS,
      hosts_processed |-> 0,
      ports_processed |-> 0,
      findings_processed |-> 0,
      cap_reason |-> None ]

\* _LimitTracker.__init__
LimitTracker(config) ==
    [ max_hosts |-> config.max_hosts,
      max_ports_per_host |-> config.max_ports_per_host,
      max_findings |-> config.max_findings,
      hosts_processed |-> 0,
      ports_processed |-> 0,
      findings_processed |-> 0,
      cap_reason |-> None ]

\* a tracker whose mark_limit starts the count of hosts again
mark_limit_resets_hosts(t, reason) ==
    [t EXCEPT !.cap_reason = reason, !.hosts_processed = 0]

\* a tracker that keeps the first limit it was told of
mark_limit_keeps_first(t, reason) ==
    IF t.cap_reason = None THEN [t EXCEPT !.cap_reason = reason] ELSE t

\* _LimitTracker.mark_limit
mark_limit(t, reason) == [t EXCEPT !.cap_reason = reason]

\* _LimitTracker.to_cap_info
to_cap_info(t) ==
    CapInfo(t.cap_reason, t.hosts_processed, t.ports_processed, t.findings_processed,
            t.max_hosts, t.max_ports_per_host, t.max_findings)

\* XML_PARSER_REGISTRY.get(name): <<>> for None
XML_PARSER_REGISTRY(name) ==
    IF name \in {"safe_xml", "real_minimal"} THEN <<name>> ELSE <<>>

\* _lab_mode_enabled
lab_mode_enabled(e) ==
    ToLower(IF e.SCANSAGE_AUTHORIZED_LAB = Unset THEN "" ELSE e.SCANSAGE_AUTHORIZED_LAB)
        \in {"1", "true", "yes"}

\* selection that lets lab mode decide before it looks at the directive
get_configured_nmap_parser_lab_first(e) ==
    LET parser_choice == e.SCANSAGE_NMAP_XML_PARSER
    IN  IF lab_mode_enabled(e) THEN Return("real_minimal")
        ELSE IF parser_choice # Unset /\ parser_choice # ""
        THEN IF XML_PARSER_REGISTRY(ToLower(parser_choice)) # <<>>
             THEN Return(XML_PARSER_REGISTRY(ToLower(parser_choice))[1])
             ELSE Raise("Requested parser is not supported.")
        ELSE Return("noop")

\* get_configured_nmap_parser: the parser's registry name ("noop" for
\* DEFAULT_PARSER), or ValueError
get_configured_nmap_parser(e) ==
    LET parser_choice == e.SCANSAGE_NMAP_XML_PARSER
    IN  IF parser_choice # Unset /\ parser_choice # ""
        THEN IF XML_PARSER_REGISTRY(ToLower(parser_choice)) # <<>>
             THEN Return(XML_PARSER_REGISTRY(ToLower(parser_choice))[1])
             ELSE Raise("Requested parser is not supported.")
        ELSE IF lab_mode_enabled(e) THEN Return("real_minimal")
        ELSE Return("noop")

---------------------------------------------------------------------------
(* nmap_ingest_store.py *)

\* persist_ingest_record's record; created_at is the clock reading now
IngestRecord(ingest_id, now, format, payload_bytes, payload_sha256, parsed, findings_count, parser_version, next_steps) ==
    [ ingest_id |-> ingest_id,
      created_at |-> now,
      format |-> format,
      summary |-> [ payload_bytes |-> payload_bytes,
                    payload_sha256 |-> payload_sha256,
                    parsed |-> FALSE ],
      next_steps |-> next_steps,
      parser_version |-> parser_version,
      parsed |-> parsed,
      findings_count |-> findings_count ]

\* retention that keeps the first MAX_STORED_RECORDS records and drops the new
persist_ingest_record_keeps_oldest(records, record) ==
    LET appended == Append(records, record)
    IN  IF Len(appended) > MAX_STORED_RECORDS
        THEN Prefix(appended, MAX_STORED_RECORDS)
        ELSE appended

\* the records _save_records writes at the end of persist_ingest_record
persist_ingest_record(records, record) ==
    LET appended == Append(records, record)
    IN  IF Len(appended) > MAX_STORED_RECORDS
        THEN Suffix(appended, MAX_STORED_RECORDS)
        ELSE appended

\* list_ingests(limit): limit is <<>> for None
list_ingests(records, limit) ==
    LET newest == Reverse(records)
        n == IF limit = <<>> THEN MAX_STORED_RECORDS
             ELSE LET m == IF limit[1] < MAX_STORED_RECORDS THEN limit[1]
                           ELSE MAX_STORED_RECORDS
                  IN  IF m > 0 THEN m ELSE 0
    IN  Prefix(newest, n)

\* get_ingest: <<>> for None
RECURSIVE get_ingest(_, _)
get_ingest(records, ingest_id) ==
    IF records = <<>> THEN <<>>
    ELSE IF Head(records).ingest_id = ingest_id THEN <<Head(records)>>
    ELSE get_ingest(Tail(records), ingest_id)

\* the processes that may call persist_ingest_record at the same time
Writers == {1, 2}

\* no persist_ingest_record call is in progress; records is the local list
\* of the call, record the record it adds and after the processes whose call
\* had returned when this one began
NoWriters ==
    [w \in Writers |-> [at |-> "idle", records |-> <<>>, record |-> <<>>, after |-> {}]]

\* a load that takes the record file for missing
load_records_empty(file) == <<>>

\* _load_records: the list in the record file, [] when the file is missing
\* or does not decode (an absent, empty or truncated file is <<>>)
load_records(file) == file

---------------------------------------------------------------------------
(* audit_log.py *)

DEFAULT_MAX_AUDIT_BYTES == 1000000
DEFAULT_WARNING_INTERVAL_SECONDS == 60

\* the keys _should_warn is called with
WarnKeys == {"mkdir", "write", "stat", "rotate"}

\* the file operations of append_audit_event that can fail: mkdir, the
\* exists() probe of the active log, stat, unlink of the old backup, rename,
\* open, write
FaultKinds == {"mkdir", "exists", "stat", "unlink", "rename", "open", "write"}

\* _parse_max_bytes: <<>> for None
parse_max_bytes(raw) ==
    IF IsBlank(raw) THEN <<DEFAULT_MAX_AUDIT_BYTES>>
    ELSE IF IntOf(raw) = <<>> THEN <<DEFAULT_MAX_AUDIT_BYTES>>
    ELSE IF IntOf(raw)[1] <= 0 THEN <<>>
    ELSE IntOf(raw)

\* len(text) of the keys and enumerated strings of an audit event
StrLen(s) ==
    CASE s = "event" -> 5
      [] s = "cap_reason" -> 10
      [] s = "limits" -> 6
      [] s = "counts_seen" -> 11
      [] s = "counts_returned" -> 15
      [] s = "max_payload_bytes" -> 17
      [] s = "max_hosts" -> 9
      [] s = "max_ports_per_host" -> 18
      [] s = "max_findings" -> 12
      [] s = "hosts_processed" -> 15
      [] s = "ports_processed" -> 15
      [] s = "findings_processed" -> 18
      [] s = "payload_bytes" -> 13
      [] s = "hosts_returned" -> 14
      [] s = "ports_returned" -> 14
      [] s = "findings_returned" -> 17
      [] s = "NMAP_INGEST_CAP_APPLIED" -> 23
      [] s = "MAX_HOSTS" -> 9
      [] s = "MAX_PORTS" -> 9
      [] s = "MAX_FINDINGS" -> 12
      [] s = "MAX_PAYLOAD_BYTES" -> 17
      [] OTHER -> 0

\* len(str(n)) of a natural number
RECURSIVE Digits(_)
Digits(n) == IF n < 10 THEN 1 ELSE 1 + Digits(n \div 10)

\* len(json.dumps(m)) of a mapping from strings to integers
RECURSIVE JsonItemsBytes(_, _)
JsonItemsBytes(m, keys) ==
    IF keys = {} THEN 0
    ELSE LET k == CHOOSE x \in keys : TRUE
         IN  StrLen(k) + 4 + Digits(m[k]) + JsonItemsBytes(m, keys \ {k})

JsonMapBytes(m) ==
    IF DOMAIN m = {} THEN 2
    ELSE 2 + 2 * (Cardinality(DOMAIN m) - 1) + JsonItemsBytes(m, DOMAIN m)

\* len(json.dumps(event, ensure_ascii=False)) of an audit event
JsonBytes(event) ==
    2 + 2 * 4
      + (StrLen("event") + 4) + (StrLen(event.event) + 2)
      + (StrLen("cap_reason") + 4) + (StrLen(event.cap_reason) + 2)
      + (StrLen("limits") + 4) + JsonMapBytes(event.limits)
      + (StrLen("counts_seen") + 4) + JsonMapBytes(event.counts_seen)
      + (StrLen("counts_returned") + 4) + JsonMapBytes(event.counts_returned)

\* what fh.write(line); fh.write("\n") adds to the file
JsonLine(event) == [text |-> event, bytes |-> JsonBytes(event) + 1]

\* path.stat().st_size of a file holding these lines
RECURSIVE FileSize(_)
FileSize(lines) ==
    IF lines = <<>> THEN 0 ELSE Head(lines).bytes + FileSize(Tail(lines))

\* the files and the warning state of the audit log
AuditState(file, backup, last, warned) ==
    [audit_file |-> file, audit_backup |-> backup, last_warn |-> last, warnings |-> warned]

\* _LAST_WARN after reset_audit_warning_state
NoWarnings == [k \in WarnKeys |-> <<>>]

\* no append_audit_event call is in progress; began is the active log as the
\* call in progress found it and event what it appends
NoRotation == [at |-> "idle", began |-> <<>>, event |-> <<>>]

\* one warning interval for all failure kinds: a warning of any kind holds
\* back the warnings of every kind
should_warn_shared_key(last, key, interval, t) ==
    IF interval <= 0 THEN [warn |-> TRUE, last |-> last]
    ELSE IF (\A k \in WarnKeys : last[k] = <<>>)
            \/ (\A k \in WarnKeys : last[k] # <<>> => t - last[k][1] >= interval)
    THEN [warn |-> TRUE, last |-> [last EXCEPT ![key] = <<t>>]]
    ELSE [warn |-> FALSE, last |-> last]

\* _should_warn(key) called at monotonic time t: its result and _LAST_WARN
should_warn(last, key, interval, t) ==
    IF interval <= 0 THEN [warn |-> TRUE, last |-> last]
    ELSE IF last[key] = <<>> \/ t - last[key][1] >= interval
    THEN [warn |-> TRUE, last |-> [last EXCEPT ![key] = <<t>>]]
    ELSE [warn |-> FALSE, last |-> last]

\* "if _should_warn(key): _LOG.warning(...)" after a failure of kind key; the
\* history keeps every failure with whether it logged a warning
Warn(a, key, interval, t) ==
    LET w == should_warn(a.last_warn, key, interval, t)
    IN  [a EXCEPT !.last_warn = w.last,
                  !.warnings = Append(@, [key |-> key, at |-> t, emitted |-> w.warn])]

\* a rename that removes the active log without putting it at the backup path
path_rename_drops(file, backup) == [audit_file |-> <<>>, audit_backup |-> backup]

\* path.rename(backup): the active path and the backup path afterwards
path_rename(file, backup) == [audit_file |-> <<>>, audit_backup |-> file]

\* rotation that keeps an earlier backup when there is one
rotate_if_needed_keeps_backup(a, max_bytes, faults, interval, t) ==
    IF max_bytes = <<>> THEN [raised |-> FALSE, state |-> a]
    ELSE IF "exists" \in faults THEN [raised |-> TRUE, state |-> a]
    ELSE IF a.audit_file = <<>> THEN [raised |-> FALSE, state |-> a]
    ELSE IF "stat" \in faults
    THEN [raised |-> FALSE, state |-> Warn(a, "stat", interval, t)]
    ELSE IF FileSize(a.audit_file[1]) < max_bytes[1] THEN [raised |-> FALSE, state |-> a]
    ELSE IF a.audit_backup # <<>>
    THEN [raised |-> FALSE, state |-> [a EXCEPT !.audit_file = <<>>]]
    ELSE [raised |-> FALSE,
          state |-> [a EXCEPT !.audit_backup = a.audit_file, !.audit_file = <<>>]]

\* _rotate_if_needed; raised when an exception leaves it (the exists() probe
\* is outside its try block)
rotate_if_needed(a, max_bytes, faults, interval, t) ==
    IF max_bytes = <<>> THEN [raised |-> FALSE, state |-> a]
    ELSE IF "exists" \in faults THEN [raised |-> TRUE, state |-> a]
    ELSE IF a.audit_file = <<>> THEN [raised |-> FALSE, state |-> a]
    ELSE IF "stat" \in faults
    THEN [raised |-> FALSE, state |-> Warn(a, "stat", interval, t)]
    ELSE IF FileSize(a.audit_file[1]) < max_bytes[1] THEN [raised |-> FALSE, state |-> a]
    ELSE IF a.audit_backup # <<>> /\ "unlink" \in faults
    THEN [raised |-> FALSE, state |-> Warn(a, "rotate", interval, t)]
    ELSE IF "rename" \in faults
    THEN [raised |-> FALSE,
          state |-> Warn([a EXCEPT !.audit_backup = <<>>], "rotate", interval, t)]
    ELSE [raised |-> FALSE,
          state |-> [a EXCEPT !.audit_backup = a.audit_file, !.audit_file = <<>>]]

\* append_audit_event(event) under the failing operations faults; a failed
\* open leaves the file as it was, a failed write leaves a file without the line
append_audit_event(a, event, max_bytes, faults, interval, t) ==
    IF "mkdir" \in faults
    THEN [raised |-> FALSE, state |-> Warn(a, "mkdir", interval, t)]
    ELSE LET r == rotate_if_needed(a, max_bytes, faults, interval, t)
         IN  IF r.raised THEN r
             ELSE IF "open" \in faults
             THEN [raised |-> FALSE, state |-> Warn(r.state, "write", interval, t)]
             ELSE IF "write" \in faults
             THEN [raised |-> FALSE,
                   state |-> Warn([r.state EXCEPT !.audit_file =
                                       IF @ = <<>> THEN << <<>> >> ELSE @],
                                  "write", interval, t)]
             ELSE [raised |-> FALSE,
                   state |-> [r.state EXCEPT !.audit_file =
                                  << (IF @ = <<>> THEN <<>> ELSE @[1])
                                         \o <<JsonLine(event)>> >>]]

---------------------------------------------------------------------------
(* cap_audit.py *)

\* a production sink that lets the exception of append_audit_event through
ProductionCapAuditSink_emit_propagates(a, entry, max_bytes, faults, interval, t) ==
    append_audit_event(a, entry, max_bytes, faults, interval, t)

\* ProductionCapAuditSink.emit: whatever append_audit_event raises is logged
\* and dropped
ProductionCapAuditSink_emit(a, entry, max_bytes, faults, interval, t) ==
    [raised |-> FALSE,
     state |-> append_audit_event(a, entry, max_bytes, faults, interval, t).state]

\* record_cap_event(entry): the in-memory buffer, the audit log, and whether
\* an exception leaves the call
record_cap_event(buffer, a, entry, max_bytes, faults, interval, t) ==
    LET sunk == ProductionCapAuditSink_emit(a, entry, max_bytes, faults, interval, t)
    IN  [events |-> Append(buffer, entry), state |-> sunk.state, raised |-> sunk.raised]

---------------------------------------------------------------------------
(* nmap_ingest.py *)

\* sha256(payload_bytes).hexdigest(): a value that names the bytes hashed
Sha256Hex(p) == [sha256_of |-> p]

\* tuple comparison of two sort keys (int, int, int, str)
SortKeyLess(a, b) ==
    \/ a[1] < b[1]
    \/ a[1] = b[1] /\ a[2] < b[2]
    \/ a[1] = b[1] /\ a[2] = b[2] /\ a[3] < b[3]
    \/ a[1] = b[1] /\ a[2] = b[2] /\ a[3] = b[3] /\ StrRank(a[4]) < StrRank(b[4])

\* stable_findings_sort_key
stable_findings_sort_key(f) == f.sort_key

RECURSIVE InsertStable(_, _)
InsertStable(s, x) ==
    IF s = <<>> THEN <<x>>
    ELSE IF SortKeyLess(stable_findings_sort_key(x), stable_findings_sort_key(Head(s)))
    THEN <<x>> \o s
    ELSE <<Head(s)>> \o InsertStable(Tail(s), x)

\* the findings in the order the parser gave them
sorted_as_given(fs) == fs

\* sorted(findings, key=stable_findings_sort_key): a stable sort
RECURSIVE sorted(_)
sorted(fs) ==
    IF fs = <<>> THEN <<>>
    ELSE InsertStable(sorted(SubSeq(fs, 1, Len(fs) - 1)), fs[Len(fs)])

\* a caps block that reports the default limits
build_caps_metadata_default_limits(reason, config, counts) ==
    LET limits == [ max_hosts |-> DEFAULT_MAX_NMAP_HOSTS,
                    max_ports_per_host |-> DEFAULT_MAX_NMAP_PORTS_PER_HOST,
                    max_findings |-> DEFAULT_MAX_NMAP_FINDINGS ]
    IN  IF counts # <<>>
        THEN [caps |-> [capped |-> TRUE, cap_reason |-> reason, limits |-> limits,
                        counts |-> counts[1]]]
        ELSE [caps |-> [capped |-> TRUE, cap_reason |-> reason, limits |-> limits]]

\* _build_caps_metadata; counts is <<>> for None or an empty dict
build_caps_metadata(reason, config, counts) ==
    LET limits == [ max_hosts |-> config.max_hosts,
                    max_ports_per_host |-> config.max_ports_per_host,
                    max_findings |-> config.max_findings ]
    IN  IF counts # <<>>
        THEN [caps |-> [capped |-> TRUE, cap_reason |-> reason, limits |-> limits,
                        counts |-> counts[1]]]
        ELSE [caps |-> [capped |-> TRUE, cap_reason |-> reason, limits |-> limits]]

\* _build_cap_limits
build_cap_limits(config) ==
    [ max_payload_bytes |-> config.max_xml_bytes,
      max_hosts |-> config.max_hosts,
      max_ports_per_host |-> config.max_ports_per_host,
      max_findings |-> config.max_findings ]

\* the same with the number of hosts reported as the number of findings
counts_returned_from_findings_per_host(fs) ==
    [ hosts_returned |-> Cardinality({fs[i].sort_key[1] : i \in DOMAIN fs}),
      ports_returned |-> Len(fs),
      findings_returned |-> Cardinality({fs[i].sort_key[1] : i \in DOMAIN fs}) ]

\* _counts_returned_from_findings
counts_returned_from_findings(fs) ==
    [ hosts_returned |-> Cardinality({fs[i].sort_key[1] : i \in DOMAIN fs}),
      ports_returned |-> Len(fs),
      findings_returned |-> Len(fs) ]

\* the entry record_cap_event appends to the in-memory sink
CapEvent(reason, limits, counts_seen, counts_returned) ==
    [ event |-> EVENT_NAME,
      cap_reason |-> reason,
      limits |-> limits,
      counts_seen |-> counts_seen,
      counts_returned |-> counts_returned ]

\* the same with a result of exactly max_findings findings taken as truncated
apply_findings_limit_truncates_at_limit(result, config) ==
    LET ordered_findings == sorted(result.findings)
        raw_count == Len(ordered_findings)
        max_findings == config.max_findings
        truncated == raw_count >= max_findings
        final_findings == IF ~truncated THEN ordered_findings
                          ELSE SubSeq(ordered_findings, 1, max_findings)
        cap_info == result.cap_info
        from_parser == cap_info # <<>> /\ capped(cap_info[1])
        reason == IF truncated THEN MAX_FINDINGS
                  ELSE IF from_parser THEN cap_info[1].reason
                  ELSE None
        counts == IF from_parser
                  THEN << [ hosts_processed |-> cap_info[1].hosts_processed,
                            ports_processed |-> cap_info[1].ports_processed,
                            findings_processed |->
                                IF truncated THEN raw_count
                                ELSE cap_info[1].findings_processed ] >>
                  ELSE IF truncated THEN << [findings_processed |-> raw_count] >>
                  ELSE <<>>
    IN  [ final_findings |-> final_findings,
          metadata |-> IF reason # None
                       THEN <<build_caps_metadata(reason, config, counts)>>
                       ELSE <<>>,
          emitted |-> IF reason # None
                      THEN << CapEvent(reason, build_cap_limits(config),
                                       IF counts = <<>> THEN <<>> ELSE counts[1],
                                       counts_returned_from_findings(final_findings)) >>
                      ELSE <<>> ]

\* _apply_findings_limit: the findings returned, the metadata (<<>> for None)
\* and the audit entries emitted through _emit_cap_event
apply_findings_limit(result, config) ==
    LET ordered_findings == sorted(result.findings)
        raw_count == Len(ordered_findings)
        max_findings == config.max_findings
        truncated == raw_count > max_findings
        final_findings == IF ~truncated THEN ordered_findings
                          ELSE SubSeq(ordered_findings, 1, max_findings)
        cap_info == result.cap_info
        from_parser == cap_info # <<>> /\ capped(cap_info[1])
        reason == IF truncated THEN MAX_FINDINGS
                  ELSE IF from_parser THEN cap_info[1].reason
                  ELSE None
        counts == IF from_parser
                  THEN << [ hosts_processed |-> cap_info[1].hosts_processed,
                            ports_processed |-> cap_info[1].ports_processed,
                            findings_processed |->
                                IF truncated THEN raw_count
                                ELSE cap_info[1].findings_processed ] >>
                  ELSE IF truncated THEN << [findings_processed |-> raw_count] >>
                  ELSE <<>>
    IN  [ final_findings |-> final_findings,
          metadata |-> IF reason # None
                       THEN <<build_caps_metadata(reason, config, counts)>>
                       ELSE <<>>,
          emitted |-> IF reason # None
                      THEN << CapEvent(reason, build_cap_limits(config),
                                       IF counts = <<>> THEN <<>> ELSE counts[1],
                                       counts_returned_from_findings(final_findings)) >>
                      ELSE <<>> ]

\* _emit_payload_cap's entry
PayloadCapEvent(config, payload_bytes) ==
    CapEvent(MAX_PAYLOAD_BYTES, build_cap_limits(config),
             [payload_bytes |-> payload_bytes],
             counts_returned_from_findings(<<>>))

\* the response with the count of the findings the parser returned
IngestResponse_counts_parsed(ingest_id, format, byte_count, digest, result, final_findings, metadata) ==
    [ operation |-> "nmap_ingest",
      ingest_id |-> ingest_id,
      format |-> format,
      summary |-> [ payload_bytes |-> byte_count,
                    payload_sha256 |-> digest,
                    parsed |-> result.parsed ],
      findings |-> <<>>,
      next_steps |-> NEXT_STEPS,
      parser_version |-> result.parser_version,
      findings_count |-> Len(result.findings),
      parsed_findings |-> MapSeq(to_mapping, final_findings) ]

\* the response mapping ingest_nmap_public builds; metadata is <<>> for None
IngestResponse(ingest_id, format, byte_count, digest, result, final_findings, metadata) ==
    LET base == [ operation |-> "nmap_ingest",
                  ingest_id |-> ingest_id,
                  format |-> format,
                  summary |-> [ payload_bytes |-> byte_count,
                                payload_sha256 |-> digest,
                                parsed |-> result.parsed ],
                  findings |-> <<>>,
                  next_steps |-> NEXT_STEPS,
                  parser_version |-> result.parser_version,
                  findings_count |-> Len(final_findings),
                  parsed_findings |-> MapSeq(to_mapping, final_findings) ]
    IN  IF metadata # <<>> THEN base @@ [metadata |-> metadata[1]] ELSE base

---------------------------------------------------------------------------
(* mcp/server.py and the schemas it validates against *)

\* a request mapping: format, payload, meta.parser (<<>> when meta is absent
\* or has no parser key) and whether it carries a key the schemas do not know
Request(format, payload, meta, extra) ==
    [format |-> format, payload |-> payload, meta |-> meta, extra |-> extra]

\* FORMAT_SCHEMAS.get(report_format): <<>> for None
FORMAT_SCHEMAS(format) ==
    CASE format = NMAP_XML_FORMAT -> <<"nmap_ingest_input_v0.1">>
      [] format = SYNTHETIC_FORMAT -> <<"nmap_ingest_input_v0.2">>
      [] OTHER -> <<>>

\* schema_registry.validate on a request, TRUE when no SchemaValidationError is
\* raised.  The schema documents are data outside the source tree; what the
\* tests state of them: payload maxLength = MAX_PAYLOAD_BYTES, unknown keys are
\* rejected, and the nmap_xml input schema rejects a meta.parser selector.
InputSchemaValid(schema_name, req) ==
    /\ ~req.extra
    /\ req.payload.chars <= MAX_PAYLOAD_BYTES_DEFAULT
    /\ schema_name = "nmap_ingest_input_v0.1" => req.meta = <<>>

\* schema_registry.validate(PUBLIC_RESPONSE_SCHEMA, response): the response
\* shape of the public contract
PublicResponseSchemaValid(resp) ==
    /\ {"operation", "ingest_id", "format", "summary", "findings", "next_steps",
        "parser_version", "findings_count", "parsed_findings"} \subseteq DOMAIN resp
    /\ DOMAIN resp \subseteq
         {"operation", "ingest_id", "format", "summary", "findings", "next_steps",
          "parser_version", "findings_count", "parsed_findings", "metadata"}
    /\ resp.findings = <<>>
    /\ resp.findings_count >= 0
    /\ \A i \in DOMAIN resp.parsed_findings :
           DOMAIN resp.parsed_findings[i] = {"title", "detail", "confidence"}
    /\ "metadata" \in DOMAIN resp =>
           /\ resp.metadata.caps.capped \in BOOLEAN
           /\ resp.metadata.caps.cap_reason \in {MAX_HOSTS, MAX_PORTS, MAX_FINDINGS}

\* the top-level properties of the PUBLIC response schema document
PUBLIC_RESPONSE_PROPERTIES ==
    {"operation", "ingest_id", "format", "summary", "findings", "next_steps",
     "parser_version", "findings_count", "parsed_findings", "metadata"}

\* schema_registry.validate(PUBLIC_RESPONSE_SCHEMA, response) against the
\* document the registry loads from the schema directory: document is the set
\* of top-level properties that document admits
schema_registry_validate(document, resp) ==
    /\ PublicResponseSchemaValid(resp)
    /\ DOMAIN resp \subseteq document

\* the list and get response schemas
ListResponseSchemaValid(resp) ==
    /\ DOMAIN resp = {"operation", "count", "max_records", "ingests"}
    /\ resp.count = Len(resp.ingests)

GetResponseSchemaValid(resp) ==
    /\ DOMAIN resp = {"operation", "ingest"}
    /\ "ingest_id" \in DOMAIN resp.ingest

\* _sanitized_error
sanitized_error(reason, detail) ==
    sanitize_public_response(
        [status |-> <<"error">>, reason |-> <<reason>>, detail |-> <<detail>>])


\* except clauses that pass the text of the exception on as the detail
IngestErrorResponse_exception_text(exc) ==
    IF exc.kind = "PayloadTooLargeError"
    THEN sanitized_error(PAYLOAD_TOO_LARGE, exc.msg)
    ELSE sanitized_error(INVALID_INPUT, exc.msg)

\* the except clauses of NmapIngestResource.ingest around ingest_nmap_public
IngestErrorResponse(exc) ==
    IF exc.kind = "PayloadTooLargeError"
    THEN sanitized_error(PAYLOAD_TOO_LARGE, "Payload exceeds the allowed size.")
    ELSE sanitized_error(INVALID_INPUT, "Unable to process the ingestion payload.")

\* the same with the size check rejecting a payload of exactly max_xml_bytes
IngestPrologue_rejects_at_limit(req, preset, e) ==
    LET config == from_env(e)
    IN  IF req.format \notin {NMAP_XML_FORMAT, SYNTHETIC_FORMAT}
        THEN [exc |-> Raise("Unsupported format for PUBLIC ingestion."), emitted |-> <<>>]
        ELSE IF req.payload.bytes >= config.max_xml_bytes
        THEN [exc |-> RaiseTooLarge("Payload exceeds maximum allowed size."),
              emitted |-> <<PayloadCapEvent(config, req.payload.bytes)>>]
        ELSE IF preset # <<>>
        THEN [exc |-> Return(preset[1]), emitted |-> <<>>]
        ELSE [exc |-> get_configured_nmap_parser(e), emitted |-> <<>>]

\* ingest_nmap_public up to the call of parser.parse: the parser to run, or
\* the exception raised; emitted holds the audit entries recorded on the way.
\* preset is the parser argument, <<>> for None
IngestPrologue(req, preset, e) ==
    LET config == from_env(e)
    IN  IF req.format \notin {NMAP_XML_FORMAT, SYNTHETIC_FORMAT}
        THEN [exc |-> Raise("Unsupported format for PUBLIC ingestion."), emitted |-> <<>>]
        ELSE IF req.payload.bytes > config.max_xml_bytes
        THEN [exc |-> RaiseTooLarge("Payload exceeds maximum allowed size."),
              emitted |-> <<PayloadCapEvent(config, req.payload.bytes)>>]
        ELSE IF preset # <<>>
        THEN [exc |-> Return(preset[1]), emitted |-> <<>>]
        ELSE [exc |-> get_configured_nmap_parser(e), emitted |-> <<>>]

\* the same without the check of the synthetic parser hint
ResourcePrologue_no_hint_check(req, e) ==
    IF FORMAT_SCHEMAS(req.format) = <<>>
    THEN [done |-> TRUE, emitted |-> <<>>, parser |-> "",
          resp |-> sanitized_error(INVALID_INPUT, "Request format is not supported.")]
    ELSE IF ~InputSchemaValid(FORMAT_SCHEMAS(req.format)[1], req)
    THEN [done |-> TRUE, emitted |-> <<>>, parser |-> "",
          resp |-> sanitized_error(INVALID_INPUT, "Request failed validation.")]
    ELSE LET pro == IngestPrologue(req,
                        IF req.format = SYNTHETIC_FORMAT THEN <<"synthetic">> ELSE <<>>, e)
         IN  IF pro.exc.raised
             THEN [done |-> TRUE, emitted |-> pro.emitted, parser |-> "",
                   resp |-> IngestErrorResponse(pro.exc)]
             ELSE [done |-> FALSE, emitted |-> pro.emitted, parser |-> pro.exc.value,
                   resp |-> <<>>]

\* NmapIngestResource.ingest up to the call of parser.parse: either the
\* response returned early (done) or the parser ingest_nmap_public will run
ResourcePrologue(req, e) ==
    IF FORMAT_SCHEMAS(req.format) = <<>>
    THEN [done |-> TRUE, emitted |-> <<>>, parser |-> "",
          resp |-> sanitized_error(INVALID_INPUT, "Request format is not supported.")]
    ELSE IF ~InputSchemaValid(FORMAT_SCHEMAS(req.format)[1], req)
    THEN [done |-> TRUE, emitted |-> <<>>, parser |-> "",
          resp |-> sanitized_error(INVALID_INPUT, "Request failed validation.")]
    ELSE IF req.format = SYNTHETIC_FORMAT /\ req.meta # <<SYNTHETIC_FORMAT>>
    THEN [done |-> TRUE, emitted |-> <<>>, parser |-> "",
          resp |-> sanitized_error(INVALID_INPUT,
                       "Synthetic parser requires explicit parser flag.")]
    ELSE LET pro == IngestPrologue(req,
                        IF req.format = SYNTHETIC_FORMAT THEN <<"synthetic">> ELSE <<>>, e)
         IN  IF pro.exc.raised
             THEN [done |-> TRUE, emitted |-> pro.emitted, parser |-> "",
                   resp |-> IngestErrorResponse(pro.exc)]
             ELSE [done |-> FALSE, emitted |-> pro.emitted, parser |-> pro.exc.value,
                   resp |-> <<>>]

\* schema_registry.validate(NMAP_XML_ALIAS_INPUT_SCHEMA, request) on an alias
\* request, which has no format key: unknown keys and a meta.parser selector
\* are rejected, the payload is bounded as in the other input schemas
AliasInputSchemaValid(req) ==
    /\ ~req.extra
    /\ req.meta = <<>>
    /\ req.payload.chars <= MAX_PAYLOAD_BYTES_DEFAULT

---------------------------------------------------------------------------
(* The state machine: one request is served at a time by one process *)

\* the audit log as the operators of audit_log take it
CurrentAudit == AuditState(audit_file, audit_backup, last_warn, warnings)

\* record_cap_event for each of the entries a step emits (at most one)
RECURSIVE RecordAll(_, _, _, _, _, _, _)
RecordAll(buffer, a, entries, max_bytes, faults, interval, t) ==
    IF entries = <<>> THEN [events |-> buffer, state |-> a, raised |-> FALSE]
    ELSE LET first == record_cap_event(buffer, a, Head(entries), max_bytes, faults,
                                       interval, t)
         IN  IF first.raised THEN first
             ELSE RecordAll(first.events, first.state, Tail(entries), max_bytes,
                            faults, interval, t)

\* the step leaves the buffer and the audit log as rec has them
Recorded(rec) ==
    /\ events' = rec.events
    /\ audit_file' = rec.state.audit_file
    /\ audit_backup' = rec.state.audit_backup
    /\ last_warn' = rec.state.last_warn
    /\ warnings' = rec.state.warnings

\* an exception that no handler of the service catches reaches the caller
Uncaught == [raised |-> "Exception"]

\* the call for req returns resp; parsed is what parser.parse had returned
\* (<<>> when it was not reached or raised) and final what
\* _apply_findings_limit had returned
Reply(req, resp, parsed, final) ==
    /\ response' = <<resp>>
    /\ log' = Append(log, [request |-> req, response |-> resp, parsed |-> parsed,
                           returned |-> final])
    /\ pc' = "idle"

\* the body of NmapIngestResource.ingest(req) up to the call of parser.parse
ServeIngest(req) ==
    LET pro == ResourcePrologue(req, env)
        rec == RecordAll(events, CurrentAudit, pro.emitted, audit_max_bytes,
                         disk_faults, warning_interval, monotonic)
    IN  /\ request' = req
        /\ store_before' = store
        /\ events_before' = events
        /\ Recorded(rec)
        /\ IF pro.done
           THEN /\ Reply(req, IF rec.raised THEN Uncaught ELSE pro.resp, <<>>, <<>>)
                /\ UNCHANGED <<parser, limit_config>>
           ELSE /\ pc' = "parse"
                /\ parser' = pro.parser
                /\ limit_config' = from_env(env)
                /\ response' = <<>>
                /\ UNCHANGED log
        /\ UNCHANGED <<surroundings, marked, inProgress>>
        /\ UNCHANGED <<env, store, next_uuid, tracker, findings, host_index,
                       port_index, ports_seen, parser_result, returned>>

\* NmapIngestResource.ingest; request["format"] on a mapping without that key
\* raises KeyError before any handler is entered
NmapIngestResource_ingest(req) ==
    /\ pc = "idle"
    /\ IF "format" \in DOMAIN req
       THEN ServeIngest(req)
       ELSE /\ Reply(req, Uncaught, <<>>, <<>>)
            /\ request' = req
            /\ store_before' = store
            /\ events_before' = events
            /\ UNCHANGED <<surroundings, auditLog, marked, inProgress>>
            /\ UNCHANGED <<env, store, events, next_uuid, parser, limit_config, tracker,
                           findings, host_index, port_index, ports_seen,
                           parser_result, returned>>

\* IngestNmapXmlResource.ingest
IngestNmapXmlResource_ingest(req) ==
    /\ pc = "idle"
    /\ IF ~AliasInputSchemaValid(req)
       THEN /\ Reply(req, sanitized_error(INVALID_INPUT, "Request failed validation."),
                     <<>>, <<>>)
            /\ request' = req
            /\ store_before' = store
            /\ events_before' = events
            /\ UNCHANGED <<surroundings, auditLog, marked, inProgress>>
            /\ UNCHANGED <<env, store, events, next_uuid, parser, limit_config, tracker,
                           findings, host_index, port_index, ports_seen,
                           parser_result, returned>>
       ELSE ServeIngest(Request(NMAP_XML_FORMAT, req.payload, <<>>, FALSE))

\* parser.parse raised exc inside ingest_nmap_public
ParseRaised(exc) ==
    /\ Reply(request, IngestErrorResponse(exc), <<>>, <<>>)
    /\ UNCHANGED <<surroundings, auditLog, marked, inProgress>>
    /\ UNCHANGED <<env, store, events, next_uuid, request, parser, limit_config,
                   tracker, findings, host_index, port_index, ports_seen,
                   parser_result, returned, store_before, events_before>>

\* parser.parse returned result
ParseReturned(result) ==
    /\ parser_result' = <<result>>
    /\ pc' = "parsed"
    /\ UNCHANGED <<surroundings, auditLog, marked, inProgress>>
    /\ UNCHANGED <<env, store, events, next_uuid, request, parser, limit_config,
                   tracker, findings, host_index, port_index, ports_seen,
                   returned, response, store_before, events_before, log>>

\* NoopNmapParser.parse called by ingest_nmap_public
ParseNoop ==
    /\ pc = "parse"
    /\ parser = "noop"
    /\ ParseReturned(NoopParse(request.payload).value)

\* SyntheticNmapParser.parse called by ingest_nmap_public
ParseSynthetic ==
    /\ pc = "parse"
    /\ parser = "synthetic"
    /\ LET r == SyntheticParse(request.payload)
       IN  IF r.raised THEN ParseRaised(r) ELSE ParseReturned(r.value)

\* SafeNmapXmlParser.parse called by ingest_nmap_public
ParseSafeXml ==
    /\ pc = "parse"
    /\ parser = "safe_xml"
    /\ LET r == SafeXmlParse(request.payload, env)
       IN  IF r.raised THEN ParseRaised(r) ELSE ParseReturned(r.value)

\* MinimalNmapXmlParser.parse, from its entry to the start of the host loop
RealParseStart ==
    /\ pc = "parse"
    /\ parser = "real_minimal"
    /\ LET root == parse_xml_safely(request.payload, env)
       IN  IF root.raised
           THEN ParseRaised(root)
           ELSE /\ tracker' = LimitTracker(from_env(env))
                /\ marked' = <<>>
                /\ findings' = <<>>
                /\ host_index' = 1
                /\ pc' = "host_loop"
                /\ UNCHANGED <<surroundings, auditLog, inProgress>>
                /\ UNCHANGED <<env, store, events, next_uuid, request, parser,
                               limit_config, port_index, ports_seen, parser_result,
                               returned, response, store_before, events_before, log>>

\* one iteration of "for host_index, host in enumerate(root.findall('host'))"
\* up to the start of its port loop, or the end of the loop
HostStep ==
    /\ pc = "host_loop"
    /\ LET hosts == request.payload.hosts
       IN  IF host_index > Len(hosts)
           THEN /\ pc' = "parse_return"
                /\ UNCHANGED <<tracker, marked, host_index, port_index, ports_seen>>
           ELSE IF tracker.hosts_processed >= tracker.max_hosts
           THEN /\ tracker' = mark_limit(tracker, MAX_HOSTS)
                /\ marked' = Append(marked, MAX_HOSTS)
                /\ pc' = "parse_return"
                /\ UNCHANGED <<host_index, port_index, ports_seen>>
           ELSE /\ tracker' = [tracker EXCEPT !.hosts_processed = @ + 1]
                /\ UNCHANGED marked
                /\ IF hosts[host_index].ports = <<>>
                   THEN /\ host_index' = host_index + 1
                        /\ UNCHANGED <<pc, port_index, ports_seen>>
                   ELSE /\ ports_seen' = 0
                        /\ port_index' = 1
                        /\ pc' = "port_loop"
                        /\ UNCHANGED host_index
    /\ UNCHANGED <<surroundings, auditLog, inProgress>>
    /\ UNCHANGED <<env, store, events, next_uuid, request, parser, limit_config,
                   findings, parser_result, returned, response, store_before,
                   events_before, log>>

\* one iteration of "for port_index, port_elem in enumerate(ports.findall('port'))"
PortStep ==
    /\ pc = "port_loop"
    /\ LET ports == request.payload.hosts[host_index].ports[1]
       IN  IF port_index > Len(ports)
           THEN /\ host_index' = host_index + 1
                /\ pc' = "host_loop"
                /\ UNCHANGED <<tracker, marked, findings, port_index, ports_seen>>
           ELSE IF ports_seen >= tracker.max_ports_per_host
           THEN /\ tracker' = mark_limit(tracker, MAX_PORTS)
                /\ marked' = Append(marked, MAX_PORTS)
                /\ host_index' = host_index + 1
                /\ pc' = "host_loop"
                /\ UNCHANGED <<findings, port_index, ports_seen>>
           ELSE LET counted == [tracker EXCEPT !.ports_processed = @ + 1]
                    finding == finding_from_port(ports[port_index],
                                                 host_index - 1, port_index - 1)
                IN  /\ ports_seen' = ports_seen + 1
                    /\ UNCHANGED host_index
                    /\ IF counted.findings_processed >= counted.max_findings
                       THEN /\ tracker' = mark_limit(counted, MAX_FINDINGS)
                            /\ marked' = Append(marked, MAX_FINDINGS)
                            /\ pc' = "parse_return"
                            /\ UNCHANGED <<findings, port_index>>
                       ELSE IF finding = <<>>
                       THEN /\ tracker' = counted
                            /\ UNCHANGED marked
                            /\ port_index' = port_index + 1
                            /\ UNCHANGED <<pc, findings>>
                       ELSE /\ findings' = Append(findings, finding[1])
                            /\ IF counted.findings_processed + 1 >= counted.max_findings
                               THEN /\ tracker' = mark_limit(
                                           [counted EXCEPT !.findings_processed = @ + 1],
                                           MAX_FINDINGS)
                                    /\ marked' = Append(marked, MAX_FINDINGS)
                                    /\ pc' = "parse_return"
                                    /\ UNCHANGED port_index
                               ELSE /\ tracker' =
                                           [counted EXCEPT !.findings_processed = @ + 1]
                                    /\ UNCHANGED marked
                                    /\ port_index' = port_index + 1
                                    /\ UNCHANGED pc
    /\ UNCHANGED <<surroundings, auditLog, inProgress>>
    /\ UNCHANGED <<env, store, events, next_uuid, request, parser, limit_config,
                   parser_result, returned, response, store_before, events_before,
                   log>>

\* the return statement of MinimalNmapXmlParser.parse
RealParseReturn ==
    /\ pc = "parse_return"
    /\ ParseReturned(ParsedNmapResult(findings # <<>>, findings, REAL_MINIMAL_VERSION,
                         IF tracker.cap_reason # None THEN <<to_cap_info(tracker)>>
                         ELSE <<>>))

\* ingest_nmap_public from the return of parser.parse to its own return, and
\* the response validation of NmapIngestResource.ingest (a direct caller, the
\* one that passes its own parser, gets the response as built).  uuid4 and
\* the clock are read from next_uuid.
IngestFinish ==
    /\ pc = "parsed"
    /\ LET result == parser_result[1]
           limited == apply_findings_limit(result, limit_config)
           ingest_id == next_uuid
           resp == IngestResponse(ingest_id, request.format, request.payload.bytes,
                                  Sha256Hex(request.payload), result,
                                  limited.final_findings, limited.metadata)
           rec == RecordAll(events, CurrentAudit, limited.emitted, audit_max_bytes,
                            disk_faults, warning_interval, monotonic)
       IN  /\ Recorded(rec)
           /\ IF rec.raised
              THEN /\ Reply(request, Uncaught, parser_result, <<>>)
                   /\ UNCHANGED <<next_uuid, store, returned>>
              ELSE /\ next_uuid' = next_uuid + 1
                   /\ store' = persist_ingest_record(store,
                                   IngestRecord(ingest_id, next_uuid, request.format,
                                                request.payload.bytes,
                                                Sha256Hex(request.payload),
                                                result.parsed, Len(limited.final_findings),
                                                result.parser_version, NEXT_STEPS))
                   /\ returned' = limited.final_findings
                   /\ IF parser = "custom"
                         \/ schema_registry_validate(response_schema, resp)
                      THEN Reply(request, resp, parser_result, limited.final_findings)
                      ELSE Reply(request,
                                 sanitized_error(RESPONSE_VALIDATION_FAILED,
                                     "Service output did not meet the public contract."),
                                 parser_result, limited.final_findings)
    /\ UNCHANGED <<surroundings, marked, inProgress>>
    /\ UNCHANGED <<env, request, parser, limit_config, tracker, findings, host_index,
                   port_index, ports_seen, parser_result, store_before, events_before>>

\* NmapIngestsListResource.__call__; limit is _normalize_limit's result
NmapIngestsListResource_call(limit) ==
    /\ pc = "idle"
    /\ LET ingests == list_ingests(store, limit)
           resp == [ operation |-> "nmap_ingests_list",
                     count |-> Len(ingests),
                     max_records |-> MAX_STORED_RECORDS,
                     ingests |-> ingests ]
       IN  response' = << IF ListResponseSchemaValid(resp) THEN resp
                          ELSE sanitized_error(RESPONSE_VALIDATION_FAILED,
                                   "List response violated the public contract.") >>
    /\ UNCHANGED <<surroundings, auditLog, marked, inProgress>>
    /\ UNCHANGED <<env, store, events, next_uuid, pc, request, parser, limit_config,
                   tracker, findings, host_index, port_index, ports_seen,
                   parser_result, returned, store_before, events_before, log>>

\* NmapIngestGetResource.__call__; ingest_id is <<>> when the request has none
NmapIngestGetResource_call(ingest_id) ==
    /\ pc = "idle"
    /\ response' =
         << IF ingest_id = <<>>
            THEN sanitized_error(INVALID_INPUT,
                     "An ingest_id is required for PUBLIC retrieval.")
            ELSE IF get_ingest(store, ingest_id[1]) = <<>>
            THEN sanitized_error(RECORD_NOT_FOUND,
                     "The requested ingestion record could not be located.")
            ELSE LET resp == [ operation |-> "nmap_ingest_get",
                               ingest |-> get_ingest(store, ingest_id[1])[1] ]
                 IN  IF GetResponseSchemaValid(resp) THEN resp
                     ELSE sanitized_error(RESPONSE_VALIDATION_FAILED,
                              "Get response violated the public contract.") >>
    /\ UNCHANGED <<surroundings, auditLog, marked, inProgress>>
    /\ UNCHANGED <<env, store, events, next_uuid, pc, request, parser, limit_config,
                   tracker, findings, host_index, port_index, ports_seen,
                   parser_result, returned, store_before, events_before, log>>

---------------------------------------------------------------------------
(* Environments and requests the model draws from *)

Env(xml_parser, lab, max_bytes, max_hosts, max_ports, max_findings) ==
    [ SCANSAGE_NMAP_XML_PARSER |-> xml_parser,
      SCANSAGE_AUTHORIZED_LAB |-> lab,
      SCANSAGE_MAX_NMAP_XML_BYTES |-> max_bytes,
      SCANSAGE_MAX_NMAP_HOSTS |-> max_hosts,
      SCANSAGE_MAX_NMAP_PORTS_PER_HOST |-> max_ports,
      SCANSAGE_MAX_NMAP_FINDINGS |-> max_findings ]

EnvChoices ==
    { Env(Unset, Unset, Unset, Unset, Unset, Unset),
      Env("real_minimal", Unset, "16", "2", "2", "2"),
      Env("Safe_Xml", "1", Unset, Unset, Unset, Unset),
      Env(Unset, "TRUE", Unset, "1", "3", "2"),
      Env("", "Yes", "nope", "0", "-1", "   "),
      Env("unsupported", "1", Unset, Unset, Unset, Unset) }

\* XML documents
docEmpty == XmlDoc(<<>>)
docStatus == XmlDoc(<<hFiltered, hDown>>)
docIds == XmlDoc(<<hIds, hNoPorts, hPlain>>)
docDoctype == Payload(12, 12, <<"<?xml", "<!DOCTYPE", "<!ENTITY">>, TRUE, <<hUp>>,
                      <<<<"<?xml", "<!DOCTYPE", "<!ENTITY">>>>)
docLowerDoctype == Payload(12, 12, <<"<!doctype">>, TRUE, <<hUp>>, <<<<"<!doctype">>>>)
docEntity == Payload(17, 17, <<"<!entity">>, FALSE, <<>>, <<<<"<!entity">>>>)
docMalformed == Payload(12, 12, <<"<nmaprun">>, FALSE, <<>>, <<<<"<nmaprun">>>>)
\* sizes around the limits: 16 and 17 bytes, 32768 characters of one or of more
\* than one byte each, 32769 characters
docSixteen == Payload(16, 16, <<"<nmaprun>">>, TRUE, <<hUp>>, <<<<"<nmaprun>">>>>)
docSeventeen == Payload(17, 17, <<"<nmaprun>">>, TRUE, <<hUp>>, <<<<"<nmaprun>">>>>)
docMaxChars == Payload(32768, 32768, <<"<nmaprun>">>, TRUE, <<hUp>>, <<<<"<nmaprun>">>>>)
docWideChars == Payload(32768, 32770, <<"<nmaprun>">>, TRUE, <<hUp>>, <<<<"<nmaprun>">>>>)
docTooLong == Payload(32769, 32769, <<"<!DOCTYPE">>, TRUE, <<hUp>>, <<<<"<!DOCTYPE">>>>)

\* synthetic payloads
lineSsh == <<"PORT_OPEN", "22", "/tcp", "service=", "ssh">>
lineHttps == <<"port_open", "443", "/TCP", "service=", "SSH">>
lineHttp == <<"PORT_OPEN", "80", "/tcp", "service=", "http">>
lineIdentifier == <<"PORT_OPEN", "80", "/tcp", "service=", "http", "192.0.2.1">>
lineJunk == <<"PORT_OPEN", "123456", "/tcp", "service=", "ssh">>
Synthetic(bytes, lines) == Payload(bytes, bytes, <<>>, FALSE, <<>>, lines)
synEmpty == Synthetic(0, <<>>)
synPorts == Synthetic(12, <<lineHttp, <<>>, lineIdentifier, lineHttps, lineSsh>>)
synMalformed == Synthetic(12, <<lineSsh, lineJunk>>)
synOversize == Synthetic(17, <<lineSsh>>)

Requests ==
    { Request(NMAP_XML_FORMAT, d, <<>>, FALSE) :
          d \in {docEmpty, docStatus, docIds, docDoctype, docLowerDoctype, docEntity,
                 docMalformed, docSixteen, docSeventeen, docMaxChars, docWideChars,
                 docTooLong} }
    \cup { Request(SYNTHETIC_FORMAT, d, <<SYNTHETIC_FORMAT>>, FALSE) :
               d \in {synEmpty, synPorts, synMalformed, synOversize, docDoctype} }
    \cup { Request(SYNTHETIC_FORMAT, synOversize, <<>>, FALSE),
           Request(SYNTHETIC_FORMAT, synPorts, <<"noop">>, FALSE),
           Request(NMAP_XML_FORMAT, docIds, <<SYNTHETIC_FORMAT>>, FALSE),
           Request(NMAP_XML_FORMAT, docIds, <<>>, TRUE),
           Request("192.0.2.1", docIds, <<>>, FALSE) }

\* requests to the ingest_nmap_xml alias: payload, meta.parser, unknown key
AliasRequest(payload, meta, extra) == [payload |-> payload, meta |-> meta, extra |-> extra]

AliasRequests ==
    { AliasRequest(docStatus, <<>>, FALSE),
      AliasRequest(docDoctype, <<>>, FALSE),
      AliasRequest(docSeventeen, <<>>, FALSE),
      AliasRequest(docIds, <<SYNTHETIC_FORMAT>>, FALSE),
      AliasRequest(docIds, <<>>, TRUE) }

ListLimits == {<<>>, <<0>>, <<1>>, <<-1>>}
GetIds == {<<>>, <<1>>, <<2>>, <<16>>}

---------------------------------------------------------------------------
(* The service: any sequence of requests to the four resources *)

\* the value of tracker while no parse has constructed one
NoTracker ==
    [ max_hosts |-> 0, max_ports_per_host |-> 0, max_findings |-> 0,
      hosts_processed |-> 0, ports_processed |-> 0, findings_processed |-> 0,
      cap_reason |-> None ]

Init ==
    /\ env \in EnvChoices
    /\ store = <<>>
    /\ events = <<>>
    /\ next_uuid = 1
    /\ pc = "idle"
    /\ request = Request(NMAP_XML_FORMAT, docEmpty, <<>>, FALSE)
    /\ parser = "noop"
    /\ limit_config = DEFAULT_NMAP_LIMITS
    /\ tracker = NoTracker
    /\ findings = <<>>
    /\ host_index = 1
    /\ port_index = 1
    /\ ports_seen = 0
    /\ parser_result = <<>>
    /\ returned = <<>>
    /\ response = <<>>
    /\ store_before = <<>>
    /\ events_before = <<>>
    /\ log = <<>>
    /\ marked = <<>>
    /\ audit_max_bytes = <<DEFAULT_MAX_AUDIT_BYTES>>
    /\ warning_interval = DEFAULT_WARNING_INTERVAL_SECONDS
    /\ monotonic = 0
    /\ disk_faults = {}
    /\ response_schema = PUBLIC_RESPONSE_PROPERTIES
    /\ audit_file = <<>>
    /\ audit_backup = <<>>
    /\ last_warn = NoWarnings
    /\ warnings = <<>>
    /\ rotation = NoRotation
    /\ writers = NoWriters

Next ==
    \/ /\ Len(log) < MaxRequests
       /\ \E req \in Requests : NmapIngestResource_ingest(req)
    \/ /\ Len(log) < MaxRequests
       /\ \E req \in AliasRequests : IngestNmapXmlResource_ingest(req)
    \/ ParseNoop
    \/ ParseSynthetic
    \/ ParseSafeXml
    \/ RealParseStart
    \/ HostStep
    \/ PortStep
    \/ RealParseReturn
    \/ IngestFinish
    \/ \E limit \in ListLimits : NmapIngestsListResource_call(limit)
    \/ \E ingest_id \in GetIds : NmapIngestGetResource_call(ingest_id)

Spec == Init /\ [][Next]_vars

---------------------------------------------------------------------------
(* The same service under a smaller choice of requests, served more often *)

RepeatRequests ==
    { Request(NMAP_XML_FORMAT, d, <<>>, FALSE) :
          d \in {docStatus, docIds, docEntity, docSeventeen} }
    \cup { Request(SYNTHETIC_FORMAT, synPorts, <<SYNTHETIC_FORMAT>>, FALSE) }

NextRepeat ==
    \/ /\ Len(log) < MaxRepeats
       /\ \E req \in RepeatRequests : NmapIngestResource_ingest(req)
    \/ /\ Len(log) < MaxRepeats
       /\ IngestNmapXmlResource_ingest(AliasRequest(docIds, <<>>, FALSE))
    \/ ParseNoop
    \/ ParseSynthetic
    \/ ParseSafeXml
    \/ RealParseStart
    \/ HostStep
    \/ PortStep
    \/ RealParseReturn
    \/ IngestFinish
    \/ NmapIngestsListResource_call(<<1>>)
    \/ NmapIngestGetResource_call(<<1>>)

SpecRepeat == Init /\ [][NextRepeat]_vars

---------------------------------------------------------------------------
(* The real parser on generated documents: one request, every document of   *)
(* up to MaxDocHosts hosts, under every choice of small limits              *)

HostKinds == {hUp, hDown, hPlain, hNoPorts, hFiltered, hSkips, hIds}

ParseRequests ==
    { Request(NMAP_XML_FORMAT, XmlDoc(hosts), <<>>, FALSE) :
          hosts \in SeqsUpTo(HostKinds, MaxDocHosts) }

LimitValues == {"1", "2", Unset}

ParseEnvChoices ==
    { Env("real_minimal", Unset, Unset, h, p, f) :
          h \in LimitValues, p \in LimitValues, f \in LimitValues }

InitParse ==
    /\ env \in ParseEnvChoices
    /\ store = <<>>
    /\ events = <<>>
    /\ next_uuid = 1
    /\ pc = "idle"
    /\ request = Request(NMAP_XML_FORMAT, docEmpty, <<>>, FALSE)
    /\ parser = "noop"
    /\ limit_config = DEFAULT_NMAP_LIMITS
    /\ tracker = NoTracker
    /\ findings = <<>>
    /\ host_index = 1
    /\ port_index = 1
    /\ ports_seen = 0
    /\ parser_result = <<>>
    /\ returned = <<>>
    /\ response = <<>>
    /\ store_before = <<>>
    /\ events_before = <<>>
    /\ log = <<>>
    /\ marked = <<>>
    /\ audit_max_bytes = <<DEFAULT_MAX_AUDIT_BYTES>>
    /\ warning_interval = DEFAULT_WARNING_INTERVAL_SECONDS
    /\ monotonic = 0
    /\ disk_faults = {}
    /\ response_schema = PUBLIC_RESPONSE_PROPERTIES
    /\ audit_file = <<>>
    /\ audit_backup = <<>>
    /\ last_warn = NoWarnings
    /\ warnings = <<>>
    /\ rotation = NoRotation
    /\ writers = NoWriters

NextParse ==
    \/ /\ log = <<>>
       /\ \E req \in ParseRequests : NmapIngestResource_ingest(req)
    \/ RealParseStart
    \/ HostStep
    \/ PortStep
    \/ RealParseReturn
    \/ IngestFinish

SpecParse == InitParse /\ [][NextParse]_vars

---------------------------------------------------------------------------
(* ingest_nmap_public called with a parser of the caller's: its first        *)
(* result is arbitrary, afterwards it hands back the findings the previous   *)
(* ingestion returned                                                        *)

CustomFindings ==
    { ParsedFinding(<<"Port", "22", "open">>, <<"ssh">>, "medium", <<0, 0, 22, "ssh">>),
      ParsedFinding(<<"Port", "80", "open">>, <<"http">>, "medium", <<0, 1, 80, "http">>),
      ParsedFinding(<<"Port", "80", "open">>, <<"192.0.2.1">>, "low", <<0, 1, 80, "http">>),
      ParsedFinding(<<"Port", "80", "open">>, <<"https">>, "medium", <<0, 1, 80, "https">>),
      ParsedFinding(<<"Port", "22", "open">>, <<"ssh">>, "medium", <<1, 0, 22, "ssh">>) }

CUSTOM_VERSION == "custom-0.1"

\* the cap_info a parser may attach to n findings: none, uncapped, or capped
CustomCapInfos(n) ==
    {<<>>} \cup
    { <<CapInfo(reason, 1, 2, n, 1, 2, 3)>> :
          reason \in {None, MAX_HOSTS, MAX_PORTS, MAX_FINDINGS} }

CustomResults ==
    UNION { { ParsedNmapResult(fs # <<>>, fs, CUSTOM_VERSION, ci) :
                  ci \in CustomCapInfos(Len(fs)) } :
            fs \in SeqsUpTo(CustomFindings, MaxRawFindings) }

LimitEnvChoices ==
    { Env(Unset, Unset, "16", Unset, Unset, f) : f \in {"1", "2", "3"} }

\* ingest_nmap_public(format, payload, parser=custom) up to parser.parse; an
\* exception reaches the caller as it is
ingest_nmap_public_custom(req) ==
    /\ pc = "idle"
    /\ LET pro == IngestPrologue(req, <<"custom">>, env)
       IN  /\ request' = req
           /\ store_before' = store
           /\ events_before' = events
           /\ Recorded(RecordAll(events, CurrentAudit, pro.emitted, audit_max_bytes,
                                 disk_faults, warning_interval, monotonic))
           /\ IF pro.exc.raised
              THEN /\ Reply(req, [raised |-> pro.exc.kind], <<>>, <<>>)
                   /\ UNCHANGED <<parser, limit_config>>
              ELSE /\ pc' = "parse"
                   /\ parser' = pro.exc.value
                   /\ limit_config' = from_env(env)
                   /\ response' = <<>>
                   /\ UNCHANGED log
    /\ UNCHANGED <<surroundings, marked, inProgress>>
    /\ UNCHANGED <<env, store, next_uuid, tracker, findings, host_index,
                   port_index, ports_seen, parser_result, returned>>

\* the caller's parser.parse
ParseCustom ==
    /\ pc = "parse"
    /\ parser = "custom"
    /\ IF log = <<>>
       THEN \E result \in CustomResults : ParseReturned(result)
       ELSE ParseReturned(ParsedNmapResult(returned # <<>>, returned, CUSTOM_VERSION, <<>>))

NextLimit ==
    \/ /\ Len(log) < 2
       /\ \E d \in {docIds, docSeventeen} :
              ingest_nmap_public_custom(Request(NMAP_XML_FORMAT, d, <<>>, FALSE))
    \/ ParseCustom
    \/ IngestFinish

InitLimit ==
    /\ env \in LimitEnvChoices
    /\ store = <<>>
    /\ events = <<>>
    /\ next_uuid = 1
    /\ pc = "idle"
    /\ request = Request(NMAP_XML_FORMAT, docEmpty, <<>>, FALSE)
    /\ parser = "noop"
    /\ limit_config = DEFAULT_NMAP_LIMITS
    /\ tracker = NoTracker
    /\ findings = <<>>
    /\ host_index = 1
    /\ port_index = 1
    /\ ports_seen = 0
    /\ parser_result = <<>>
    /\ returned = <<>>
    /\ response = <<>>
    /\ store_before = <<>>
    /\ events_before = <<>>
    /\ log = <<>>
    /\ marked = <<>>
    /\ audit_max_bytes = <<DEFAULT_MAX_AUDIT_BYTES>>
    /\ warning_interval = DEFAULT_WARNING_INTERVAL_SECONDS
    /\ monotonic = 0
    /\ disk_faults = {}
    /\ response_schema = PUBLIC_RESPONSE_PROPERTIES
    /\ audit_file = <<>>
    /\ audit_backup = <<>>
    /\ last_warn = NoWarnings
    /\ warnings = <<>>
    /\ rotation = NoRotation
    /\ writers = NoWriters

SpecLimit == InitLimit /\ [][NextLimit]_vars

---------------------------------------------------------------------------
(* The limit configuration under every choice of the four limit variables: *)
(* one request is served under each                                        *)

\* values of a limit variable: unset, empty, blank, not a number, not an
\* integer, zero, negative, positive (also padded with blanks)
RawLimitValues == {Unset, "", "   ", "nope", "1.5", "0", "-1", "1", " 2 ", "16"}

ConfigEnvChoices ==
    { Env(Unset, Unset, b, h, p, f) :
          b \in RawLimitValues, h \in RawLimitValues,
          p \in RawLimitValues, f \in RawLimitValues }

InitConfig ==
    /\ env \in ConfigEnvChoices
    /\ store = <<>>
    /\ events = <<>>
    /\ next_uuid = 1
    /\ pc = "idle"
    /\ request = Request(NMAP_XML_FORMAT, docEmpty, <<>>, FALSE)
    /\ parser = "noop"
    /\ limit_config = DEFAULT_NMAP_LIMITS
    /\ tracker = NoTracker
    /\ findings = <<>>
    /\ host_index = 1
    /\ port_index = 1
    /\ ports_seen = 0
    /\ parser_result = <<>>
    /\ returned = <<>>
    /\ response = <<>>
    /\ store_before = <<>>
    /\ events_before = <<>>
    /\ log = <<>>
    /\ marked = <<>>
    /\ audit_max_bytes = <<DEFAULT_MAX_AUDIT_BYTES>>
    /\ warning_interval = DEFAULT_WARNING_INTERVAL_SECONDS
    /\ monotonic = 0
    /\ disk_faults = {}
    /\ response_schema = PUBLIC_RESPONSE_PROPERTIES
    /\ audit_file = <<>>
    /\ audit_backup = <<>>
    /\ last_warn = NoWarnings
    /\ warnings = <<>>
    /\ rotation = NoRotation
    /\ writers = NoWriters

NextConfig ==
    \/ /\ log = <<>>
       /\ NmapIngestResource_ingest(Request(NMAP_XML_FORMAT, docEmpty, <<>>, FALSE))
    \/ ParseNoop
    \/ IngestFinish

SpecConfig == InitConfig /\ [][NextConfig]_vars

---------------------------------------------------------------------------
(* The service over a failing audit log: the file operations that fail, the *)
(* rotation threshold and the files an earlier run left are chosen at the   *)
(* start                                                                    *)

\* number of requests served over the failing log
MaxAuditRequests == 2

\* a line an earlier run of the service wrote
OldLine == JsonLine(PayloadCapEvent(DEFAULT_NMAP_LIMITS, 32769))

\* an audit file of an earlier run: absent, or holding one line
OldFiles == {<<>>, <<<<OldLine>>>>}

\* a payload over the size limit, a document capped by the limits, and one
\* that no limit touches
AuditRequests ==
    { Request(NMAP_XML_FORMAT, d, <<>>, FALSE) : d \in {docSeventeen, docIds, docEmpty} }

InitAudit ==
    /\ env = Env("real_minimal", Unset, "16", "2", "2", "2")
    /\ store = <<>>
    /\ events = <<>>
    /\ next_uuid = 1
    /\ pc = "idle"
    /\ request = Request(NMAP_XML_FORMAT, docEmpty, <<>>, FALSE)
    /\ parser = "noop"
    /\ limit_config = DEFAULT_NMAP_LIMITS
    /\ tracker = NoTracker
    /\ findings = <<>>
    /\ host_index = 1
    /\ port_index = 1
    /\ ports_seen = 0
    /\ parser_result = <<>>
    /\ returned = <<>>
    /\ response = <<>>
    /\ store_before = <<>>
    /\ events_before = <<>>
    /\ log = <<>>
    /\ marked = <<>>
    /\ audit_max_bytes \in {<<>>, <<1>>, <<DEFAULT_MAX_AUDIT_BYTES>>}
    /\ warning_interval = DEFAULT_WARNING_INTERVAL_SECONDS
    /\ monotonic = 0
    /\ disk_faults \in SUBSET FaultKinds
    /\ response_schema = PUBLIC_RESPONSE_PROPERTIES
    /\ audit_file \in OldFiles
    /\ audit_backup \in OldFiles
    /\ last_warn = NoWarnings
    /\ warnings = <<>>
    /\ rotation = NoRotation
    /\ writers = NoWriters

NextAudit ==
    \/ /\ Len(log) < MaxAuditRequests
       /\ \E req \in AuditRequests : NmapIngestResource_ingest(req)
    \/ RealParseStart
    \/ HostStep
    \/ PortStep
    \/ RealParseReturn
    \/ IngestFinish

SpecAudit == InitAudit /\ [][NextAudit]_vars

---------------------------------------------------------------------------
(* append_audit_event called directly, as the tests of the audit log do *)

\* append_audit_event(event) while the operations of faults fail; an exception
\* that leaves it reaches the caller and changes nothing else
AppendAuditEvent(event, faults) ==
    /\ pc = "idle"
    /\ disk_faults' = faults
    /\ LET r == append_audit_event(CurrentAudit, event, audit_max_bytes, faults,
                                   warning_interval, monotonic)
       IN  /\ audit_file' = r.state.audit_file
           /\ audit_backup' = r.state.audit_backup
           /\ last_warn' = r.state.last_warn
           /\ warnings' = r.state.warnings
    /\ UNCHANGED <<audit_max_bytes, warning_interval, monotonic, response_schema>>
    /\ UNCHANGED <<marked, inProgress>>
    /\ UNCHANGED <<env, store, events, next_uuid, pc, request, parser, limit_config,
                   tracker, findings, host_index, port_index, ports_seen,
                   parser_result, returned, response, store_before, events_before,
                   log>>

\* time.monotonic() moves on by one unit
ClockAdvances ==
    /\ monotonic' = monotonic + 1
    /\ UNCHANGED <<audit_max_bytes, warning_interval, disk_faults, response_schema>>
    /\ UNCHANGED <<auditLog, marked, inProgress>>
    /\ UNCHANGED <<env, store, events, next_uuid, pc, request, parser, limit_config,
                   tracker, findings, host_index, port_index, ports_seen,
                   parser_result, returned, response, store_before, events_before,
                   log>>

\* the events appended: a size rejection and two capped parses
eventPayload == PayloadCapEvent(DEFAULT_NMAP_LIMITS, 32769)
eventHosts ==
    CapEvent(MAX_HOSTS, build_cap_limits(DEFAULT_NMAP_LIMITS),
             [hosts_processed |-> 2, ports_processed |-> 3, findings_processed |-> 3],
             [hosts_returned |-> 2, ports_returned |-> 3, findings_returned |-> 3])
eventFindings ==
    CapEvent(MAX_FINDINGS, build_cap_limits(DEFAULT_NMAP_LIMITS),
             [hosts_processed |-> 1, ports_processed |-> 12, findings_processed |-> 10],
             [hosts_returned |-> 1, ports_returned |-> 10, findings_returned |-> 10])
AuditEvents == {eventPayload, eventHosts, eventFindings}

\* the contents of a file: nothing for a file that does not exist
Contents(file) == IF file = <<>> THEN <<>> ELSE file[1]

---------------------------------------------------------------------------
(* Rotation: events appended to a healthy log, starting from the files an  *)
(* earlier run left, under thresholds around the sizes of one and of two   *)
(* lines                                                                   *)

\* lines the active log may hold before the next call is left out
MaxAuditLines == 3

RotationThresholds ==
    { <<1>>,
      <<FileSize(<<JsonLine(eventPayload)>>)>>,
      <<FileSize(<<JsonLine(eventPayload)>>) + 1>>,
      <<FileSize(<<JsonLine(eventPayload), JsonLine(eventHosts)>>)>>,
      <<DEFAULT_MAX_AUDIT_BYTES>> }

InitRotation ==
    /\ env = Env(Unset, Unset, Unset, Unset, Unset, Unset)
    /\ store = <<>>
    /\ events = <<>>
    /\ next_uuid = 1
    /\ pc = "idle"
    /\ request = Request(NMAP_XML_FORMAT, docEmpty, <<>>, FALSE)
    /\ parser = "noop"
    /\ limit_config = DEFAULT_NMAP_LIMITS
    /\ tracker = NoTracker
    /\ findings = <<>>
    /\ host_index = 1
    /\ port_index = 1
    /\ ports_seen = 0
    /\ parser_result = <<>>
    /\ returned = <<>>
    /\ response = <<>>
    /\ store_before = <<>>
    /\ events_before = <<>>
    /\ log = <<>>
    /\ marked = <<>>
    /\ audit_max_bytes \in RotationThresholds
    /\ warning_interval = DEFAULT_WARNING_INTERVAL_SECONDS
    /\ monotonic = 0
    /\ disk_faults = {}
    /\ response_schema = PUBLIC_RESPONSE_PROPERTIES
    /\ audit_file \in OldFiles
    /\ audit_backup \in OldFiles
    /\ last_warn = NoWarnings
    /\ warnings = <<>>
    /\ rotation = NoRotation
    /\ writers = NoWriters

NextRotation ==
    /\ Len(Contents(audit_file)) < MaxAuditLines
    /\ \E event \in AuditEvents : AppendAuditEvent(event, {})

SpecRotation == InitRotation /\ [][NextRotation]_vars

---------------------------------------------------------------------------
(* Warnings: events appended to a log whose operations fail from call to   *)
(* call while the clock moves on                                           *)

\* failures after which no further call is made
MaxFailures == 4
\* the last tick of the clock
MaxClock == 3

\* the positive warning intervals set_audit_warning_interval is given
WarningIntervals == {1, 2}

\* the operations that fail during one call
FaultChoices ==
    { {}, {"mkdir"}, {"stat"}, {"unlink"}, {"rename"}, {"write"},
      {"stat", "write"}, {"rename", "open"} }

InitWarn ==
    /\ env = Env(Unset, Unset, Unset, Unset, Unset, Unset)
    /\ store = <<>>
    /\ events = <<>>
    /\ next_uuid = 1
    /\ pc = "idle"
    /\ request = Request(NMAP_XML_FORMAT, docEmpty, <<>>, FALSE)
    /\ parser = "noop"
    /\ limit_config = DEFAULT_NMAP_LIMITS
    /\ tracker = NoTracker
    /\ findings = <<>>
    /\ host_index = 1
    /\ port_index = 1
    /\ ports_seen = 0
    /\ parser_result = <<>>
    /\ returned = <<>>
    /\ response = <<>>
    /\ store_before = <<>>
    /\ events_before = <<>>
    /\ log = <<>>
    /\ marked = <<>>
    /\ audit_max_bytes = <<1>>
    /\ warning_interval \in WarningIntervals
    /\ monotonic = 0
    /\ disk_faults = {}
    /\ response_schema = PUBLIC_RESPONSE_PROPERTIES
    /\ audit_file = <<>>
    /\ audit_backup = <<>>
    /\ last_warn = NoWarnings
    /\ warnings = <<>>
    /\ rotation = NoRotation
    /\ writers = NoWriters

NextWarn ==
    \/ /\ Len(warnings) < MaxFailures
       /\ \E faults \in FaultChoices : AppendAuditEvent(eventPayload, faults)
    \/ /\ monotonic < MaxClock
       /\ ClockAdvances

SpecWarn == InitWarn /\ [][NextWarn]_vars

---------------------------------------------------------------------------
(* The retention store: persist_ingest_record called directly, more often   *)
(* than the store retains, with listings and lookups in between             *)

\* calls of persist_ingest_record
MaxPersists == 18

\* the record the call number n creates: uuid4 and the clock are read from
\* the counter, so ingest ids are distinct
PersistedRecord(n) ==
    IngestRecord(n, n, NMAP_XML_FORMAT, 12, Sha256Hex(docEmpty), TRUE, 1,
                 REAL_MINIMAL_VERSION, NEXT_STEPS)

\* persist_ingest_record(...) called directly
PersistIngestRecord ==
    /\ pc = "idle"
    /\ store' = persist_ingest_record(store, PersistedRecord(next_uuid))
    /\ next_uuid' = next_uuid + 1
    /\ UNCHANGED <<surroundings, auditLog, marked, inProgress>>
    /\ UNCHANGED <<env, events, pc, request, parser, limit_config, tracker, findings,
                   host_index, port_index, ports_seen, parser_result, returned,
                   response, store_before, events_before, log>>

\* limits given to list_ingests: none, negative, zero, inside and beyond the
\* retention count
StoreListLimits == {<<>>, <<-1>>, <<0>>, <<1>>, <<15>>, <<16>>, <<17>>}

\* ids looked up: every id handed out and two that never were
StoreGetIds == 0..(MaxPersists + 1)

NextStore ==
    \/ /\ next_uuid <= MaxPersists
       /\ PersistIngestRecord
    \/ \E limit \in StoreListLimits : NmapIngestsListResource_call(limit)
    \/ \E ingest_id \in StoreGetIds : NmapIngestGetResource_call(<<ingest_id>>)

SpecStore == Init /\ [][NextStore]_vars

---------------------------------------------------------------------------
(* The service over a schema registry whose response document may not      *)
(* admit everything ingest_nmap_public builds                              *)

\* the registry's response document: the one of the public contract, or one
\* that does not declare the cap metadata
SchemaDocuments == {PUBLIC_RESPONSE_PROPERTIES, PUBLIC_RESPONSE_PROPERTIES \ {"metadata"}}

InitSchema ==
    /\ env \in EnvChoices
    /\ store = <<>>
    /\ events = <<>>
    /\ next_uuid = 1
    /\ pc = "idle"
    /\ request = Request(NMAP_XML_FORMAT, docEmpty, <<>>, FALSE)
    /\ parser = "noop"
    /\ limit_config = DEFAULT_NMAP_LIMITS
    /\ tracker = NoTracker
    /\ findings = <<>>
    /\ host_index = 1
    /\ port_index = 1
    /\ ports_seen = 0
    /\ parser_result = <<>>
    /\ returned = <<>>
    /\ response = <<>>
    /\ store_before = <<>>
    /\ events_before = <<>>
    /\ log = <<>>
    /\ marked = <<>>
    /\ audit_max_bytes = <<DEFAULT_MAX_AUDIT_BYTES>>
    /\ warning_interval = DEFAULT_WARNING_INTERVAL_SECONDS
    /\ monotonic = 0
    /\ disk_faults = {}
    /\ response_schema \in SchemaDocuments
    /\ audit_file = <<>>
    /\ audit_backup = <<>>
    /\ last_warn = NoWarnings
    /\ warnings = <<>>
    /\ rotation = NoRotation
    /\ writers = NoWriters

SpecSchema == InitSchema /\ [][Next]_vars

---------------------------------------------------------------------------
(* One _LimitTracker on its own: any sequence of mark_limit calls and of    *)
(* the increments its user makes                                            *)

\* mark_limit calls made on the tracker
MaxMarks == 3
\* the value up to which a counter is incremented
MaxCount == 2

\* what the tracker operations of this section leave alone
TrackerFrame ==
    /\ UNCHANGED <<surroundings, auditLog, inProgress>>
    /\ UNCHANGED <<env, store, events, next_uuid, pc, request, parser, limit_config,
                   findings, host_index, port_index, ports_seen, parser_result,
                   returned, response, store_before, events_before, log>>

\* tracker.mark_limit(reason)
TrackerMarkLimit(reason) ==
    /\ tracker' = mark_limit(tracker, reason)
    /\ marked' = Append(marked, reason)
    /\ TrackerFrame

\* tracker.hosts_processed += 1
TrackerCountsHost ==
    /\ tracker' = [tracker EXCEPT !.hosts_processed = @ + 1]
    /\ UNCHANGED marked
    /\ TrackerFrame

\* tracker.ports_processed += 1
TrackerCountsPort ==
    /\ tracker' = [tracker EXCEPT !.ports_processed = @ + 1]
    /\ UNCHANGED marked
    /\ TrackerFrame

\* tracker.findings_processed += 1
TrackerCountsFinding ==
    /\ tracker' = [tracker EXCEPT !.findings_processed = @ + 1]
    /\ UNCHANGED marked
    /\ TrackerFrame

\* _LimitTracker(config) under every choice of small limits
InitTracker ==
    /\ env \in ParseEnvChoices
    /\ store = <<>>
    /\ events = <<>>
    /\ next_uuid = 1
    /\ pc = "idle"
    /\ request = Request(NMAP_XML_FORMAT, docEmpty, <<>>, FALSE)
    /\ parser = "noop"
    /\ limit_config = DEFAULT_NMAP_LIMITS
    /\ tracker = LimitTracker(from_env(env))
    /\ findings = <<>>
    /\ host_index = 1
    /\ port_index = 1
    /\ ports_seen = 0
    /\ parser_result = <<>>
    /\ returned = <<>>
    /\ response = <<>>
    /\ store_before = <<>>
    /\ events_before = <<>>
    /\ log = <<>>
    /\ marked = <<>>
    /\ audit_max_bytes = <<DEFAULT_MAX_AUDIT_BYTES>>
    /\ warning_interval = DEFAULT_WARNING_INTERVAL_SECONDS
    /\ monotonic = 0
    /\ disk_faults = {}
    /\ response_schema = PUBLIC_RESPONSE_PROPERTIES
    /\ audit_file = <<>>
    /\ audit_backup = <<>>
    /\ last_warn = NoWarnings
    /\ warnings = <<>>
    /\ rotation = NoRotation
    /\ writers = NoWriters

NextTracker ==
    \/ /\ Len(marked) < MaxMarks
       /\ \E reason \in CapReason : TrackerMarkLimit(reason)
    \/ /\ tracker.hosts_processed < MaxCount
       /\ TrackerCountsHost
    \/ /\ tracker.ports_processed < MaxCount
       /\ TrackerCountsPort
    \/ /\ tracker.findings_processed < MaxCount
       /\ TrackerCountsFinding

SpecTracker == InitTracker /\ [][NextTracker]_vars

---------------------------------------------------------------------------
(* The synthetic parser on generated payloads: one request, every payload   *)
(* of up to MaxSynLines lines                                               *)

MaxSynLines == 3

\* a line that neither matches nor is blank, with an identifier in it
lineJunkIdentifier == <<"open", "192.0.2.1">>

SynLineKinds == {lineSsh, lineHttps, lineHttp, <<>>, lineIdentifier, lineJunk,
                 lineJunkIdentifier}

\* the empty payload has no byte and no line
SyntheticRequests ==
    { Request(SYNTHETIC_FORMAT, Synthetic(IF lines = <<>> THEN 0 ELSE 12, lines),
              <<SYNTHETIC_FORMAT>>, FALSE) :
          lines \in SeqsUpTo(SynLineKinds, MaxSynLines) }

SyntheticEnvChoices ==
    { Env(Unset, Unset, Unset, Unset, Unset, Unset),
      Env(Unset, Unset, Unset, Unset, Unset, "2") }

InitSynthetic ==
    /\ env \in SyntheticEnvChoices
    /\ store = <<>>
    /\ events = <<>>
    /\ next_uuid = 1
    /\ pc = "idle"
    /\ request = Request(NMAP_XML_FORMAT, docEmpty, <<>>, FALSE)
    /\ parser = "noop"
    /\ limit_config = DEFAULT_NMAP_LIMITS
    /\ tracker = NoTracker
    /\ findings = <<>>
    /\ host_index = 1
    /\ port_index = 1
    /\ ports_seen = 0
    /\ parser_result = <<>>
    /\ returned = <<>>
    /\ response = <<>>
    /\ store_before = <<>>
    /\ events_before = <<>>
    /\ log = <<>>
    /\ marked = <<>>
    /\ audit_max_bytes = <<DEFAULT_MAX_AUDIT_BYTES>>
    /\ warning_interval = DEFAULT_WARNING_INTERVAL_SECONDS
    /\ monotonic = 0
    /\ disk_faults = {}
    /\ response_schema = PUBLIC_RESPONSE_PROPERTIES
    /\ audit_file = <<>>
    /\ audit_backup = <<>>
    /\ last_warn = NoWarnings
    /\ warnings = <<>>
    /\ rotation = NoRotation
    /\ writers = NoWriters

NextSynthetic ==
    \/ /\ log = <<>>
       /\ \E req \in SyntheticRequests : NmapIngestResource_ingest(req)
    \/ ParseSynthetic
    \/ IngestFinish

SpecSynthetic == InitSynthetic /\ [][NextSynthetic]_vars

---------------------------------------------------------------------------
(* append_audit_event one file operation at a time, and the process       *)
(* stopping between two of them                                           *)

\* number of append_audit_event calls followed
MaxRotationCalls == 3

\* the file operations that fail in this section
CrashFaultChoices == {{}, {"unlink"}, {"rename"}, {"write"}}

\* what the steps of append_audit_event leave alone
RotationFrame ==
    /\ UNCHANGED <<audit_max_bytes, warning_interval, disk_faults, response_schema>>
    /\ UNCHANGED <<marked, writers>>
    /\ UNCHANGED <<env, store, events, next_uuid, pc, request, parser, limit_config,
                   tracker, findings, host_index, port_index, ports_seen,
                   parser_result, returned, response, store_before, events_before,
                   log>>

\* "if _should_warn(key): _LOG.warning(...)" in a step
Warned(key) ==
    /\ last_warn' = Warn(CurrentAudit, key, warning_interval, monotonic).last_warn
    /\ warnings' = Warn(CurrentAudit, key, warning_interval, monotonic).warnings

\* append_audit_event(event) from its entry to the try block of
\* _rotate_if_needed, or to the open when no rotation is due
RotationBegin(event) ==
    /\ rotation.at \in {"idle", "done", "crashed"}
    /\ monotonic < MaxRotationCalls
    /\ monotonic' = monotonic + 1
    /\ IF "mkdir" \in disk_faults
       THEN /\ Warned("mkdir")
            /\ rotation' = NoRotation
            /\ UNCHANGED <<audit_file, audit_backup>>
       ELSE IF audit_max_bytes # <<>> /\ "exists" \in disk_faults
       THEN /\ rotation' = NoRotation
            /\ UNCHANGED auditLog
       ELSE IF audit_max_bytes # <<>> /\ audit_file # <<>> /\ "stat" \in disk_faults
       THEN /\ Warned("stat")
            /\ rotation' = [at |-> "append", began |-> audit_file, event |-> <<event>>]
            /\ UNCHANGED <<audit_file, audit_backup>>
       ELSE /\ rotation' =
                 [at |-> IF /\ audit_max_bytes # <<>>
                            /\ audit_file # <<>>
                            /\ FileSize(Contents(audit_file)) >= audit_max_bytes[1]
                         THEN "unlink" ELSE "append",
                  began |-> audit_file,
                  event |-> <<event>>]
            /\ UNCHANGED auditLog
    /\ RotationFrame

\* "if backup.exists(): backup.unlink()"
RotationUnlink ==
    /\ rotation.at = "unlink"
    /\ IF audit_backup # <<>> /\ "unlink" \in disk_faults
       THEN /\ Warned("rotate")
            /\ rotation' = [rotation EXCEPT !.at = "append"]
            /\ UNCHANGED <<audit_file, audit_backup>>
       ELSE /\ audit_backup' = <<>>
            /\ rotation' = [rotation EXCEPT !.at = "rename"]
            /\ UNCHANGED <<audit_file, last_warn, warnings>>
    /\ UNCHANGED monotonic
    /\ RotationFrame

\* "path.rename(backup)"
RotationRename ==
    /\ rotation.at = "rename"
    /\ IF "rename" \in disk_faults
       THEN /\ Warned("rotate")
            /\ UNCHANGED <<audit_file, audit_backup>>
       ELSE /\ audit_file' = path_rename(audit_file, audit_backup).audit_file
            /\ audit_backup' = path_rename(audit_file, audit_backup).audit_backup
            /\ UNCHANGED <<last_warn, warnings>>
    /\ rotation' = [rotation EXCEPT !.at = "append"]
    /\ UNCHANGED monotonic
    /\ RotationFrame

\* the open in append mode and the write of the line
RotationAppend ==
    /\ rotation.at = "append"
    /\ IF "open" \in disk_faults
       THEN /\ Warned("write")
            /\ UNCHANGED <<audit_file, audit_backup>>
       ELSE IF "write" \in disk_faults
       THEN /\ Warned("write")
            /\ audit_file' = IF audit_file = <<>> THEN << <<>> >> ELSE audit_file
            /\ UNCHANGED audit_backup
       ELSE /\ audit_file' = <<Contents(audit_file) \o <<JsonLine(rotation.event[1])>>>>
            /\ UNCHANGED <<audit_backup, last_warn, warnings>>
    /\ rotation' = [rotation EXCEPT !.at = "done"]
    /\ UNCHANGED monotonic
    /\ RotationFrame

\* the process stops inside the call; the files stay as they are
Crash ==
    /\ rotation.at \in {"unlink", "rename", "append"}
    /\ rotation' = [rotation EXCEPT !.at = "crashed"]
    /\ UNCHANGED <<monotonic, auditLog>>
    /\ RotationFrame

InitCrash ==
    /\ env = Env(Unset, Unset, Unset, Unset, Unset, Unset)
    /\ store = <<>>
    /\ events = <<>>
    /\ next_uuid = 1
    /\ pc = "idle"
    /\ request = Request(NMAP_XML_FORMAT, docEmpty, <<>>, FALSE)
    /\ parser = "noop"
    /\ limit_config = DEFAULT_NMAP_LIMITS
    /\ tracker = NoTracker
    /\ findings = <<>>
    /\ host_index = 1
    /\ port_index = 1
    /\ ports_seen = 0
    /\ parser_result = <<>>
    /\ returned = <<>>
    /\ response = <<>>
    /\ store_before = <<>>
    /\ events_before = <<>>
    /\ log = <<>>
    /\ marked = <<>>
    /\ audit_max_bytes \in RotationThresholds
    /\ warning_interval = DEFAULT_WARNING_INTERVAL_SECONDS
    /\ monotonic = 0
    /\ disk_faults \in CrashFaultChoices
    /\ response_schema = PUBLIC_RESPONSE_PROPERTIES
    /\ audit_file \in OldFiles
    /\ audit_backup \in OldFiles
    /\ last_warn = NoWarnings
    /\ warnings = <<>>
    /\ rotation = NoRotation
    /\ writers = NoWriters

NextCrash ==
    \/ \E event \in AuditEvents : RotationBegin(event)
    \/ RotationUnlink
    \/ RotationRename
    \/ RotationAppend
    \/ Crash

SpecCrash == InitCrash /\ [][NextCrash]_vars

---------------------------------------------------------------------------
(* Thresholds of zero and below: events appended to a healthy log under a  *)
(* threshold read from the environment or installed with set_audit_config  *)

\* AuditConfig.from_env().max_bytes under SCANSAGE_AUDIT_MAX_BYTES of zero
\* or below
EnvThresholds == {parse_max_bytes(raw) : raw \in {"0", "-1"}}

\* the max_bytes of an AuditConfig installed with set_audit_config
InstalledThresholds == {<<0>>, <<-1>>}

InitThreshold ==
    /\ env = Env(Unset, Unset, Unset, Unset, Unset, Unset)
    /\ store = <<>>
    /\ events = <<>>
    /\ next_uuid = 1
    /\ pc = "idle"
    /\ request = Request(NMAP_XML_FORMAT, docEmpty, <<>>, FALSE)
    /\ parser = "noop"
    /\ limit_config = DEFAULT_NMAP_LIMITS
    /\ tracker = NoTracker
    /\ findings = <<>>
    /\ host_index = 1
    /\ port_index = 1
    /\ ports_seen = 0
    /\ parser_result = <<>>
    /\ returned = <<>>
    /\ response = <<>>
    /\ store_before = <<>>
    /\ events_before = <<>>
    /\ log = <<>>
    /\ marked = <<>>
    /\ audit_max_bytes \in EnvThresholds \cup InstalledThresholds
    /\ warning_interval = DEFAULT_WARNING_INTERVAL_SECONDS
    /\ monotonic = 0
    /\ disk_faults = {}
    /\ response_schema = PUBLIC_RESPONSE_PROPERTIES
    /\ audit_file \in OldFiles
    /\ audit_backup \in OldFiles
    /\ last_warn = NoWarnings
    /\ warnings = <<>>
    /\ rotation = NoRotation
    /\ writers = NoWriters

NextThreshold ==
    /\ Len(Contents(audit_file)) < MaxAuditLines
    /\ \E event \in AuditEvents : AppendAuditEvent(event, {})

SpecThreshold == InitThreshold /\ [][NextThreshold]_vars

---------------------------------------------------------------------------
(* The ingest resource on request mappings with and without a format key:  *)
(* one request is served                                                   *)

\* a request mapping that has no format key
MappingWithoutFormat == [payload |-> docStatus, meta |-> <<>>, extra |-> FALSE]

InitMapping ==
    /\ env \in EnvChoices
    /\ store = <<>>
    /\ events = <<>>
    /\ next_uuid = 1
    /\ pc = "idle"
    /\ request = Request(NMAP_XML_FORMAT, docEmpty, <<>>, FALSE)
    /\ parser = "noop"
    /\ limit_config = DEFAULT_NMAP_LIMITS
    /\ tracker = NoTracker
    /\ findings = <<>>
    /\ host_index = 1
    /\ port_index = 1
    /\ ports_seen = 0
    /\ parser_result = <<>>
    /\ returned = <<>>
    /\ response = <<>>
    /\ store_before = <<>>
    /\ events_before = <<>>
    /\ log = <<>>
    /\ marked = <<>>
    /\ audit_max_bytes = <<DEFAULT_MAX_AUDIT_BYTES>>
    /\ warning_interval = DEFAULT_WARNING_INTERVAL_SECONDS
    /\ monotonic = 0
    /\ disk_faults = {}
    /\ response_schema = PUBLIC_RESPONSE_PROPERTIES
    /\ audit_file = <<>>
    /\ audit_backup = <<>>
    /\ last_warn = NoWarnings
    /\ warnings = <<>>
    /\ rotation = NoRotation
    /\ writers = NoWriters

NextMapping ==
    \/ /\ log = <<>>
       /\ \E req \in Requests \cup {MappingWithoutFormat} : NmapIngestResource_ingest(req)
    \/ ParseNoop
    \/ ParseSynthetic
    \/ ParseSafeXml
    \/ RealParseStart
    \/ HostStep
    \/ PortStep
    \/ RealParseReturn
    \/ IngestFinish

SpecMapping == InitMapping /\ [][NextMapping]_vars

---------------------------------------------------------------------------
(* persist_ingest_record called by two processes, one file operation at a  *)
(* time                                                                    *)

\* the record files an earlier run left
PriorStores == {<<>>, <<PersistedRecord(11)>>, <<PersistedRecord(11), PersistedRecord(12)>>}

\* what the steps of persist_ingest_record leave alone
WriterFrame ==
    /\ UNCHANGED <<surroundings, auditLog, marked, rotation>>
    /\ UNCHANGED <<env, events, pc, request, parser, limit_config, tracker, findings,
                   host_index, port_index, ports_seen, parser_result, returned,
                   response, store_before, events_before, log>>

\* persist_ingest_record(...) up to the record it builds
PersistBegin(w, format, parsed) ==
    /\ writers[w].at = "idle"
    /\ writers' = [writers EXCEPT ![w] =
           [at |-> "load",
            records |-> <<>>,
            record |-> <<IngestRecord(next_uuid, next_uuid, format, 12,
                                      Sha256Hex(docEmpty), parsed,
                                      IF parsed THEN 1 ELSE 0,
                                      REAL_MINIMAL_VERSION, NEXT_STEPS)>>,
            after |-> {v \in Writers : writers[v].at = "done"}]]
    /\ next_uuid' = next_uuid + 1
    /\ UNCHANGED store
    /\ WriterFrame

\* records = _load_records()
PersistLoad(w) ==
    /\ writers[w].at = "load"
    /\ writers' = [writers EXCEPT ![w].records = load_records(store), ![w].at = "save"]
    /\ UNCHANGED <<store, next_uuid>>
    /\ WriterFrame

\* _save_records: write_text opens the record file, which truncates it
PersistOpen(w) ==
    /\ writers[w].at = "save"
    /\ store' = <<>>
    /\ writers' = [writers EXCEPT ![w].at = "write"]
    /\ UNCHANGED next_uuid
    /\ WriterFrame

\* _save_records: write_text writes the appended and trimmed list
PersistWrite(w) ==
    /\ writers[w].at = "write"
    /\ store' = persist_ingest_record(writers[w].records, writers[w].record[1])
    /\ writers' = [writers EXCEPT ![w].at = "done"]
    /\ UNCHANGED next_uuid
    /\ WriterFrame

InitWriters ==
    /\ env = Env(Unset, Unset, Unset, Unset, Unset, Unset)
    /\ store \in PriorStores
    /\ events = <<>>
    /\ next_uuid = 1
    /\ pc = "idle"
    /\ request = Request(NMAP_XML_FORMAT, docEmpty, <<>>, FALSE)
    /\ parser = "noop"
    /\ limit_config = DEFAULT_NMAP_LIMITS
    /\ tracker = NoTracker
    /\ findings = <<>>
    /\ host_index = 1
    /\ port_index = 1
    /\ ports_seen = 0
    /\ parser_result = <<>>
    /\ returned = <<>>
    /\ response = <<>>
    /\ store_before = <<>>
    /\ events_before = <<>>
    /\ log = <<>>
    /\ marked = <<>>
    /\ audit_max_bytes = <<DEFAULT_MAX_AUDIT_BYTES>>
    /\ warning_interval = DEFAULT_WARNING_INTERVAL_SECONDS
    /\ monotonic = 0
    /\ disk_faults = {}
    /\ response_schema = PUBLIC_RESPONSE_PROPERTIES
    /\ audit_file = <<>>
    /\ audit_backup = <<>>
    /\ last_warn = NoWarnings
    /\ warnings = <<>>
    /\ rotation = NoRotation
    /\ writers = NoWriters

NextWriters ==
    \/ \E w \in Writers, format \in {NMAP_XML_FORMAT, SYNTHETIC_FORMAT}, parsed \in BOOLEAN :
           PersistBegin(w, format, parsed)
    \/ \E w \in Writers : PersistLoad(w)
    \/ \E w \in Writers : PersistOpen(w)
    \/ \E w \in Writers : PersistWrite(w)

SpecWriters == InitWriters /\ [][NextWriters]_vars

---------------------------------------------------------------------------
(* Properties *)

\* the responses returned so far
Responses == Range(response) \cup {log[i].response : i \in DOMAIN log}

IsError(r) == "status" \in DOMAIN r
IsIngestSuccess(r) == "parsed_findings" \in DOMAIN r

FindingTexts(fs) == UNION {{fs[i].title, fs[i].detail} : i \in DOMAIN fs}

RecordTexts(rec) == {<<rec.format>>, <<rec.parser_version>>, rec.next_steps}

\* the strings of a response; ingest ids, digests and timestamps are
\* hexadecimal or ISO-8601 strings, which no fragment of IDENTIFIER_PATTERNS
\* matches
ResponseTexts(r) ==
    CASE IsError(r) -> {r.status, r.reason, r.detail}
      [] IsIngestSuccess(r) ->
             FindingTexts(r.parsed_findings)
                 \cup {<<r.operation>>, <<r.format>>, <<r.parser_version>>, r.next_steps}
      [] "ingests" \in DOMAIN r ->
             {<<r.operation>>} \cup UNION {RecordTexts(r.ingests[i]) : i \in DOMAIN r.ingests}
      [] "ingest" \in DOMAIN r -> {<<r.operation>>} \cup RecordTexts(r.ingest)
      [] OTHER -> {}

\* every ParsedFinding the parsers and the limiter hold
FindingsHeld ==
    Range(findings) \cup Range(returned)
        \cup UNION {Range(parser_result[i].findings) : i \in DOMAIN parser_result}

\* C1: no string of any response contains a token that IDENTIFIER_PATTERN
\* matches, in particular none of the identifiers of the payload, and the
\* title and detail of every ParsedFinding are free of such tokens from its
\* construction on
C1_NoIdentifierInResponses ==
    /\ \A r \in Responses : \A t \in ResponseTexts(r) : ~IdentifierSearch(t)
    /\ \A f \in FindingsHeld : ~IdentifierSearch(f.title) /\ ~IdentifierSearch(f.detail)

\* a response carries findings of a payload with identifiers in the port id
\* and in the service attributes, and shows the placeholder in a title and in
\* a detail
C1_Witness ==
    /\ pc = "idle"
    /\ response # <<>>
    /\ IsIngestSuccess(response[1])
    /\ request.payload = docIds
    /\ \E i \in DOMAIN response[1].parsed_findings :
           /\ "[redacted]" \in Range(response[1].parsed_findings[i].title)
           /\ "[redacted]" \in Range(response[1].parsed_findings[i].detail)


\* the payload holds <!DOCTYPE or <!ENTITY in some letter case
ContainsMarker(p) == PayloadAtoms(p) \cap MarkerAtoms # {}

\* a marker appears in a string of the response
MarkerInResponse(r) == \E t \in ResponseTexts(r) : Range(t) \cap MarkerAtoms # {}

\* the parser the environment selects for nmap_xml requests is one that runs
\* parse_xml_safely
XmlParserInForce ==
    /\ ~get_configured_nmap_parser(env).raised
    /\ get_configured_nmap_parser(env).value \in {"safe_xml", "real_minimal"}

\* the format an entry of the log was served under (the alias serves nmap_xml)
EntryFormat(e) ==
    IF "format" \in DOMAIN e.request THEN e.request.format ELSE NMAP_XML_FORMAT

C2_OversizeMarker ==
    \E i \in DOMAIN log :
        /\ ContainsMarker(log[i].request.payload)
        /\ XmlParserInForce
        /\ IsError(log[i].response)
        /\ log[i].response.reason = <<PAYLOAD_TOO_LARGE>>


\* the UTF-8 encoding of the payload is longer than the configured maximum
Oversize(p) == p.bytes > from_env(env).max_xml_bytes

\* the request gets past the checks the resource makes before it calls
\* ingest_nmap_public: a known format, no unknown key, a payload of at most
\* 32768 characters, no parser hint for nmap_xml and the synthetic_v1 hint
\* for synthetic_v1
PassesRequestChecks(e) ==
    /\ EntryFormat(e) \in {NMAP_XML_FORMAT, SYNTHETIC_FORMAT}
    /\ ~e.request.extra
    /\ e.request.payload.chars <= DEFAULT_MAX_NMAP_XML_BYTES
    /\ e.request.meta = IF EntryFormat(e) = SYNTHETIC_FORMAT THEN <<SYNTHETIC_FORMAT>>
                        ELSE <<>>

\* the store holds what it held when the last request arrived
StoreUnchanged == pc = "idle" /\ log # <<>> => store = store_before

\* C3 as stated: every ingestion request whose payload is over the configured
\* max payload bytes is answered with an error envelope of reason
\* payload_too_large and leaves the store unchanged; a payload of exactly the
\* maximum is not rejected for size
C3_OversizeAlwaysTooLarge ==
    /\ \A i \in DOMAIN log :
           /\ Oversize(log[i].request.payload) =>
                  /\ IsError(log[i].response)
                  /\ log[i].response.reason = <<PAYLOAD_TOO_LARGE>>
           /\ log[i].request.payload.bytes = from_env(env).max_xml_bytes =>
                  ~(IsError(log[i].response)
                      /\ log[i].response.reason = <<PAYLOAD_TOO_LARGE>>)
    /\ (log # <<>> /\ Oversize(log[Len(log)].request.payload)) => StoreUnchanged

\* C3 amended: a request whose payload is over the configured max payload
\* bytes is answered with an error envelope, of reason payload_too_large when
\* the request passes the checks made before the size check (format, input
\* schema with its 32768-character payload bound, synthetic parser hint) and
\* of reason invalid_input otherwise; the store is unchanged and holds no
\* record of an oversized payload; a payload of at most the maximum is never
\* answered payload_too_large
C3_OversizeRejected ==
    /\ \A i \in DOMAIN log :
           /\ Oversize(log[i].request.payload) =>
                  /\ IsError(log[i].response)
                  /\ log[i].response.reason =
                         IF PassesRequestChecks(log[i]) THEN <<PAYLOAD_TOO_LARGE>>
                         ELSE <<INVALID_INPUT>>
           /\ ~Oversize(log[i].request.payload) =>
                  ~(IsError(log[i].response)
                      /\ log[i].response.reason = <<PAYLOAD_TOO_LARGE>>)
    /\ (log # <<>> /\ Oversize(log[Len(log)].request.payload)) => StoreUnchanged
    /\ \A i \in DOMAIN store :
           store[i].summary.payload_bytes <= from_env(env).max_xml_bytes

\* after an ingestion that was stored, a payload one byte over the configured
\* 16 has been answered payload_too_large and a payload of exactly 16 bytes
\* has been ingested
C3_Witness ==
    /\ pc = "idle"
    /\ Len(log) = 2
    /\ log[1].request.payload = docSixteen
    /\ IsIngestSuccess(log[1].response)
    /\ log[2].request.payload = docSeventeen
    /\ log[2].response = sanitized_error(PAYLOAD_TOO_LARGE,
                             "Payload exceeds the allowed size.")
    /\ from_env(env).max_xml_bytes = 16
    /\ Len(store) = 1
    /\ store = store_before


\* the reason and detail of every error the four resources can return, one
\* pair for each kind of failure
StaticErrors ==
    { <<INVALID_INPUT, "Request format is not supported.">>,
      <<INVALID_INPUT, "Request failed validation.">>,
      <<INVALID_INPUT, "Synthetic parser requires explicit parser flag.">>,
      <<INVALID_INPUT, "Unable to process the ingestion payload.">>,
      <<INVALID_INPUT, "An ingest_id is required for PUBLIC retrieval.">>,
      <<PAYLOAD_TOO_LARGE, "Payload exceeds the allowed size.">>,
      <<RECORD_NOT_FOUND, "The requested ingestion record could not be located.">>,
      <<RESPONSE_VALIDATION_FAILED, "Service output did not meet the public contract.">>,
      <<RESPONSE_VALIDATION_FAILED, "List response violated the public contract.">>,
      <<RESPONSE_VALIDATION_FAILED, "Get response violated the public contract.">> }

\* C4: every error envelope returned by the ingest, alias, list and get
\* resources has exactly the fields status, reason and detail, with status
\* "error", the reason one of invalid_input, payload_too_large,
\* response_validation_failed, record_not_found, and the detail one of a fixed
\* set of static strings chosen by the kind of failure alone: nothing of the
\* payload, of the requested ingest_id or of the exception text is in it
C4_ErrorEnvelopeStatic ==
    \A r \in Responses :
        IsError(r) =>
            /\ DOMAIN r = {"status", "reason", "detail"}
            /\ r.status = <<"error">>
            /\ Len(r.reason) = 1
            /\ r.reason[1] \in {INVALID_INPUT, PAYLOAD_TOO_LARGE,
                                RESPONSE_VALIDATION_FAILED, RECORD_NOT_FOUND}
            /\ Len(r.detail) = 1
            /\ <<r.reason[1], r.detail[1]>> \in StaticErrors

\* a synthetic payload with a malformed line and a document with a forbidden
\* declaration, whose exceptions carry different texts, have both been
\* answered with the one detail of a failed ingestion, and a lookup of an
\* unknown ingest_id with record_not_found
C4_Witness ==
    /\ pc = "idle"
    /\ Len(log) = 2
    /\ log[1].request.payload = synMalformed
    /\ log[2].request.payload = docDoctype
    /\ IsError(log[1].response)
    /\ log[1].response.detail = <<"Unable to process the ingestion payload.">>
    /\ log[2].response = log[1].response
    /\ response = <<sanitized_error(RECORD_NOT_FOUND,
                        "The requested ingestion record could not be located.")>>


\* the parser of entry e returned a result that reports a cap reason
ParserReportedCap(e) ==
    /\ e.parsed[1].cap_info # <<>>
    /\ e.parsed[1].cap_info[1].reason # None

\* the parser of entry e returned more findings than max_findings
RawCountExceeds(e) == Len(e.parsed[1].findings) > from_env(env).max_findings

\* the count limits in force
LimitsInForce ==
    [ max_hosts |-> from_env(env).max_hosts,
      max_ports_per_host |-> from_env(env).max_ports_per_host,
      max_findings |-> from_env(env).max_findings ]

IsOpenTcpNamed(p) ==
    /\ p.protocol \in {"tcp", "TCP"}
    /\ p.state \in {<<"open">>, <<"OPEN">>}
    /\ p.portid # ""
    /\ p.service # <<>>
    /\ p.service[1].name # ""

\* every host of the document is not down and has exactly one port, an open
\* TCP port with a named service
OneOpenPortEach(p) ==
    \A i \in DOMAIN p.hosts :
        /\ p.hosts[i].status # "down"
        /\ p.hosts[i].ports # <<>>
        /\ Len(p.hosts[i].ports[1]) = 1
        /\ IsOpenTcpNamed(p.hosts[i].ports[1][1])

\* entry e is an ingestion by the real parser of H such hosts under
\* max_findings = M with M < H <= max_hosts
C6_Case(e) ==
    /\ e.parsed # <<>>
    /\ e.parsed[1].parser_version = REAL_MINIMAL_VERSION
    /\ OneOpenPortEach(e.request.payload)
    /\ from_env(env).max_findings < Len(e.request.payload.hosts)
    /\ Len(e.request.payload.hosts) <= from_env(env).max_hosts

QualifyingPorts(p) ==
    UNION { { <<h, k>> : k \in { n \in DOMAIN p.hosts[h].ports[1] :
                                     IsOpenTcpNamed(p.hosts[h].ports[1][n]) } } :
            h \in { m \in DOMAIN p.hosts :
                        p.hosts[m].status # "down" /\ p.hosts[m].ports # <<>> } }

\* C7: with the minimal real parser every finding returned comes from an open
\* TCP port with a port id and a service name on a host that is not down (a
\* port that is not open or not tcp, and any port of a down host, contributes
\* none), and when no cap was hit there is one finding for each such port
C7_OnlyOpenTcpOnHostsNotDown ==
    \A i \in DOMAIN log :
        (log[i].parsed # <<>> /\ log[i].parsed[1].parser_version = REAL_MINIMAL_VERSION) =>
            /\ \A k \in DOMAIN log[i].returned :
                   <<log[i].returned[k].sort_key[1] + 1, log[i].returned[k].sort_key[2] + 1>>
                       \in QualifyingPorts(log[i].request.payload)
            /\ log[i].parsed[1].cap_info = <<>> =>
                   Len(log[i].response.parsed_findings)
                       = Cardinality(QualifyingPorts(log[i].request.payload))


\* the part of a response that does not name the ingestion: an error envelope
\* as it is, a success envelope without its ingest_id
Outcome(r) == IF IsIngestSuccess(r) THEN [r EXCEPT !.ingest_id = 0] ELSE r

\* C8: under a fixed environment (limits and parser selection), two
\* ingestions of the same request return the same parsed_findings, in the same
\* order and cut at the same point, and the same cap metadata, whatever was
\* served between them; the responses differ in the ingest_id at most
C8_Deterministic ==
    \A i \in DOMAIN log : \A j \in DOMAIN log :
        (i < j /\ log[i].request = log[j].request) =>
            /\ Outcome(log[i].response) = Outcome(log[j].response)
            /\ log[i].returned = log[j].returned
            /\ IsIngestSuccess(log[i].response) =>
                   /\ log[i].response.parsed_findings = log[j].response.parsed_findings
                   /\ ("metadata" \in DOMAIN log[i].response)
                          <=> ("metadata" \in DOMAIN log[j].response)
                   /\ log[i].response.ingest_id # log[j].response.ingest_id

\* a document has been ingested twice by the real parser with another
\* ingestion between, each time capped for MAX_PORTS with a finding returned
C8_Witness ==
    /\ Len(log) = 3
    /\ log[1].request = log[3].request
    /\ log[1].request.payload = docStatus
    /\ log[2].request.payload = docIds
    /\ IsIngestSuccess(log[2].response)
    /\ IsIngestSuccess(log[3].response)
    /\ "metadata" \in DOMAIN log[3].response
    /\ log[3].response.metadata.caps.cap_reason = MAX_PORTS
    /\ log[3].response.parsed_findings # <<>>


\* out is in ascending order of sort_key
Ascending(out) ==
    \A a \in DOMAIN out : \A b \in DOMAIN out :
        a < b => ~SortKeyLess(out[b].sort_key, out[a].sort_key)

\* out holds the k smallest findings of inp by sort_key, in ascending order,
\* findings of equal sort_key in the order inp has them: there is a choice
\* f of k positions of inp that out reads off, and every position left out
\* holds a finding that sorts after all of out
FirstOfSorted(out, inp, k) ==
    /\ Len(out) = k
    /\ Ascending(out)
    /\ \E f \in [DOMAIN out -> DOMAIN inp] :
           /\ \A a \in DOMAIN out : out[a] = inp[f[a]]
           /\ \A a \in DOMAIN out : \A b \in DOMAIN out :
                  a < b => /\ f[a] # f[b]
                           /\ out[a].sort_key = out[b].sort_key => f[a] < f[b]
           /\ \A m \in DOMAIN inp :
                  (\A a \in DOMAIN out : f[a] # m) =>
                      \A a \in DOMAIN out :
                          /\ ~SortKeyLess(inp[m].sort_key, out[a].sort_key)
                          /\ inp[m].sort_key = out[a].sort_key => f[a] < m

Min(a, b) == IF a < b THEN a ELSE b

\* C9: for a parse result of n findings the findings returned are the first
\* min(n, max_findings) of the result sorted by sort_key ascending; if
\* n > max_findings the cap reason reported is MAX_FINDINGS and
\* counts.findings_processed = n, whatever reason the parser reported; if
\* n <= max_findings the reason reported is the parser's, or there is none
C9_SortedPrefixAndReason ==
    \A i \in DOMAIN log :
        log[i].parsed # <<>> =>
            LET n == Len(log[i].parsed[1].findings)
                max == from_env(env).max_findings
                r == log[i].response
            IN  /\ FirstOfSorted(log[i].returned, log[i].parsed[1].findings, Min(n, max))
                /\ r.parsed_findings = MapSeq(to_mapping, log[i].returned)
                /\ n > max =>
                       /\ "metadata" \in DOMAIN r
                       /\ r.metadata.caps.cap_reason = MAX_FINDINGS
                       /\ r.metadata.caps.counts.findings_processed = n
                /\ (n <= max /\ ParserReportedCap(log[i])) =>
                       /\ "metadata" \in DOMAIN r
                       /\ r.metadata.caps.cap_reason = log[i].parsed[1].cap_info[1].reason
                /\ (n <= max /\ ~ParserReportedCap(log[i])) => "metadata" \notin DOMAIN r

\* a parser has returned three findings out of order and reported MAX_HOSTS
\* under max_findings = 2: the two smallest came back, with MAX_FINDINGS
C9_Witness ==
    /\ log # <<>>
    /\ log[1].parsed # <<>>
    /\ Len(log[1].parsed[1].findings) = 3
    /\ ~Ascending(log[1].parsed[1].findings)
    /\ ParserReportedCap(log[1])
    /\ log[1].parsed[1].cap_info[1].reason = MAX_HOSTS
    /\ from_env(env).max_findings = 2
    /\ Len(log[1].returned) = 2
    /\ log[1].response.metadata.caps.cap_reason = MAX_FINDINGS

\* C10: when the findings a parser hands over are the output of an earlier
\* ordering-and-truncation under the same max_findings, with no cap reason of
\* the parser's own, the step returns the same sequence and reports nothing:
\* no metadata, hence no truncation and no forced reason, and no audit entry
C10_TruncationIdempotent ==
    /\ \A i \in DOMAIN log : \A j \in DOMAIN log :
           ( /\ i < j
             /\ log[i].parsed # <<>>
             /\ log[j].parsed # <<>>
             /\ log[j].parsed[1].findings = log[i].returned
             /\ ~ParserReportedCap(log[j]) ) =>
               /\ log[j].returned = log[i].returned
               /\ "metadata" \notin DOMAIN log[j].response
    /\ ( /\ pc = "idle"
         /\ Len(log) = 2
         /\ log[1].parsed # <<>>
         /\ log[2].parsed # <<>>
         /\ log[2].parsed[1].findings = log[1].returned ) => events = events_before

\* three findings out of order were cut to two, and the two, handed over
\* again, have come back as they were
C10_Witness ==
    /\ pc = "idle"
    /\ Len(log) = 2
    /\ log[1].parsed # <<>>
    /\ Len(log[1].parsed[1].findings) = 3
    /\ ~Ascending(log[1].parsed[1].findings)
    /\ "metadata" \in DOMAIN log[1].response
    /\ log[2].parsed # <<>>
    /\ log[2].parsed[1].findings = log[1].returned
    /\ Len(log[2].returned) = 2
    /\ log[2].returned = log[1].returned

---------------------------------------------------------------------------
(* C11: parser selection *)

\* the parser-selection directive is set (to a non-empty value), and it names
\* a parser of the registry in some letter case
DirectiveSet == env.SCANSAGE_NMAP_XML_PARSER \notin {Unset, ""}
DirectiveRecognized ==
    DirectiveSet /\ ToLower(env.SCANSAGE_NMAP_XML_PARSER) \in {"safe_xml", "real_minimal"}

\* lab mode is on
LabModeOn ==
    env.SCANSAGE_AUTHORIZED_LAB # Unset
        /\ ToLower(env.SCANSAGE_AUTHORIZED_LAB) \in {"1", "true", "yes"}

\* the parser the configuration calls for, when the directive is not an
\* unrecognized name
ParserCalledFor ==
    IF DirectiveRecognized THEN ToLower(env.SCANSAGE_NMAP_XML_PARSER)
    ELSE IF LabModeOn THEN "real_minimal"
    ELSE "noop"

\* the version string each parser puts in its result
VersionOf(name) ==
    CASE name = "safe_xml" -> SAFE_XML_VERSION
      [] name = "real_minimal" -> REAL_MINIMAL_VERSION
      [] name = "synthetic" -> SYNTHETIC_VERSION
      [] OTHER -> NOOP_VERSION

\* what the claim says of one served request e
SelectionFollowsConfiguration(e) ==
    /\ (DirectiveSet /\ ~DirectiveRecognized) =>
           /\ IsError(e.response)
           /\ e.response.reason = <<INVALID_INPUT>>
    /\ (~DirectiveSet \/ DirectiveRecognized) =>
           /\ e.parsed # <<>> => e.parsed[1].parser_version = VersionOf(ParserCalledFor)
           /\ (e.parsed # <<>> /\ ParserCalledFor = "noop") =>
                  /\ ~e.parsed[1].parsed
                  /\ e.parsed[1].findings = <<>>

\* C11 as stated: for every request, the parser that runs is the one the
\* configuration calls for (a recognized directive wins over lab mode, lab
\* mode selects the minimal real parser, otherwise the no-op parser runs and
\* returns parsed = false and no findings), and under an unrecognized
\* directive the request is answered with an invalid_input error
C11_SelectionByConfigurationOnly ==
    \A i \in DOMAIN log : SelectionFollowsConfiguration(log[i])

\* C11: for every nmap_xml request that passes the request checks and the
\* size check, the parser that runs is the one the configuration calls for
\* (a recognized directive wins over lab mode; absent or empty, lab mode
\* selects the minimal real parser; otherwise the no-op parser runs and
\* returns parsed = false and no findings), and under an unrecognized
\* directive the request is answered with an invalid_input error; a
\* synthetic_v1 request carrying the synthetic_v1 hint is parsed by the
\* synthetic parser under every configuration
C11_SelectionForXmlRequests ==
    /\ \A i \in DOMAIN log :
           /\ (EntryFormat(log[i]) = NMAP_XML_FORMAT /\ PassesRequestChecks(log[i])
                 /\ ~Oversize(log[i].request.payload)) =>
                  SelectionFollowsConfiguration(log[i])
           /\ (EntryFormat(log[i]) = SYNTHETIC_FORMAT /\ log[i].parsed # <<>>) =>
                  log[i].parsed[1].parser_version = SYNTHETIC_VERSION
    /\ (pc # "idle" /\ request.format = NMAP_XML_FORMAT) => parser = ParserCalledFor
    /\ (pc # "idle" /\ request.format = SYNTHETIC_FORMAT) => parser = "synthetic"

\* with the directive naming the safety-boundary parser and lab mode on, an
\* nmap_xml document with hosts was parsed by the safety-boundary parser
C11_Witness ==
    /\ pc = "idle"
    /\ DirectiveRecognized
    /\ LabModeOn
    /\ \E i \in DOMAIN log :
           /\ log[i].request.payload = docIds
           /\ log[i].parsed # <<>>
           /\ log[i].parsed[1].parser_version = SAFE_XML_VERSION
           /\ IsIngestSuccess(log[i].response)

---------------------------------------------------------------------------
(* C12: the synthetic parser hint *)

\* a synthetic_v1 request without the synthetic_v1 parser hint
LacksSyntheticHint(req) ==
    /\ "format" \in DOMAIN req
    /\ req.format = SYNTHETIC_FORMAT
    /\ req.meta # <<SYNTHETIC_FORMAT>>

\* C12: a synthetic_v1 request whose meta.parser is absent or is not
\* "synthetic_v1" is answered with an invalid_input error without any parser
\* running: the service never enters a parse for it, emits no cap audit event
\* and persists no record; and the synthetic parser runs only for synthetic_v1
\* requests that carry the hint
C12_SyntheticNeedsHint ==
    /\ \A i \in DOMAIN log :
           /\ LacksSyntheticHint(log[i].request) =>
                  /\ IsError(log[i].response)
                  /\ log[i].response.reason = <<INVALID_INPUT>>
                  /\ log[i].parsed = <<>>
           /\ (log[i].parsed # <<>>
                 /\ log[i].parsed[1].parser_version = SYNTHETIC_VERSION) =>
                  /\ EntryFormat(log[i]) = SYNTHETIC_FORMAT
                  /\ log[i].request.meta = <<SYNTHETIC_FORMAT>>
    /\ pc # "idle" =>
           /\ ~LacksSyntheticHint(request)
           /\ parser = "synthetic" <=> request.format = SYNTHETIC_FORMAT
    /\ (pc = "idle" /\ log # <<>> /\ LacksSyntheticHint(log[Len(log)].request)) =>
           /\ store = store_before
           /\ events = events_before

\* after a stored ingestion, a synthetic_v1 request of valid lines that names
\* another parser was answered invalid_input, and the store and the audit
\* buffer are as they were
C12_Witness ==
    /\ pc = "idle"
    /\ Len(log) = 2
    /\ IsIngestSuccess(log[1].response)
    /\ log[2].request = Request(SYNTHETIC_FORMAT, synPorts, <<"noop">>, FALSE)
    /\ log[2].response = sanitized_error(INVALID_INPUT,
                             "Synthetic parser requires explicit parser flag.")
    /\ Len(store) = 1
    /\ store = store_before
    /\ events = events_before

---------------------------------------------------------------------------
(* C13: the limit configuration *)

\* the positive integer a value of a limit variable denotes, <<>> when it
\* denotes none
PositiveInteger(raw) ==
    CASE raw = "1" -> <<1>>
      [] raw = " 2 " -> <<2>>
      [] raw = "16" -> <<16>>
      [] OTHER -> <<>>

\* the limit a variable resolves to by the claim
Resolved(raw, default) ==
    IF PositiveInteger(raw) # <<>> THEN PositiveInteger(raw)[1] ELSE default

\* the LimitConfig the environment resolves to by the claim
ResolvedConfig ==
    [ max_xml_bytes |-> Resolved(env.SCANSAGE_MAX_NMAP_XML_BYTES, 32768),
      max_hosts |-> Resolved(env.SCANSAGE_MAX_NMAP_HOSTS, 64),
      max_ports_per_host |-> Resolved(env.SCANSAGE_MAX_NMAP_PORTS_PER_HOST, 128),
      max_findings |-> Resolved(env.SCANSAGE_MAX_NMAP_FINDINGS, 100) ]

\* C13: whatever the four limit variables hold (unset, empty, blank, not a
\* number, zero, negative, positive), the limit configuration an ingestion
\* works with has every limit >= 1: a positive integer resolves to itself and
\* anything else to the default 32768, 64, 128 or 100, each variable on its
\* own; the limits an audit event reports are the same
C13_LimitsResolveSafely ==
    /\ from_env(env) = ResolvedConfig
    /\ \A k \in DOMAIN from_env(env) : from_env(env)[k] >= 1
    /\ pc # "idle" => limit_config = ResolvedConfig
    /\ \A i \in DOMAIN events :
           /\ events[i].limits.max_payload_bytes = ResolvedConfig.max_xml_bytes
           /\ events[i].limits.max_hosts = ResolvedConfig.max_hosts
           /\ events[i].limits.max_ports_per_host = ResolvedConfig.max_ports_per_host
           /\ events[i].limits.max_findings = ResolvedConfig.max_findings

\* an ingestion was served with a positive payload limit kept, and a word, a
\* zero and a negative number in the three other variables replaced by the
\* defaults
C13_Witness ==
    /\ pc = "idle"
    /\ log # <<>>
    /\ IsIngestSuccess(log[1].response)
    /\ env.SCANSAGE_MAX_NMAP_XML_BYTES = "16"
    /\ env.SCANSAGE_MAX_NMAP_HOSTS = "nope"
    /\ env.SCANSAGE_MAX_NMAP_PORTS_PER_HOST = "0"
    /\ env.SCANSAGE_MAX_NMAP_FINDINGS = "-1"
    /\ limit_config = [max_xml_bytes |-> 16, max_hosts |-> 64,
                       max_ports_per_host |-> 128, max_findings |-> 100]

---------------------------------------------------------------------------
(* C15: the in-memory audit buffer *)

\* the call was rejected for the size of its payload
SizeRejected(e) ==
    \/ IsError(e.response) /\ e.response.reason = <<PAYLOAD_TOO_LARGE>>
    \/ "raised" \in DOMAIN e.response /\ e.response.raised = "PayloadTooLargeError"

\* the call returned cap metadata
ReturnedCaps(e) == IsIngestSuccess(e.response) /\ "metadata" \in DOMAIN e.response

\* the call is one the buffer holds an event for
Audited(e) == SizeRejected(e) \/ ReturnedCaps(e)

\* every value of the mapping is a natural number
AllNaturals(m) == \A k \in DOMAIN m : m[k] \in Nat

\* ev is the event of the call e
EventOfCall(ev, e) ==
    /\ DOMAIN ev = {"event", "cap_reason", "limits", "counts_seen", "counts_returned"}
    /\ ev.event = EVENT_NAME
    /\ ev.cap_reason \in CapReason
    /\ AllNaturals(ev.limits)
    /\ AllNaturals(ev.counts_seen)
    /\ AllNaturals(ev.counts_returned)
    /\ IF SizeRejected(e)
       THEN /\ ev.cap_reason = MAX_PAYLOAD_BYTES
            /\ ev.counts_returned.findings_returned = 0
       ELSE /\ ev.cap_reason = e.response.metadata.caps.cap_reason
            /\ ev.counts_returned.findings_returned = e.response.findings_count
            /\ ev.counts_returned.findings_returned = Len(e.response.parsed_findings)

\* C15: the in-memory audit buffer holds, in call order, exactly one event
\* for each call that was rejected for payload size or returned cap metadata
\* and none for any other call; each event has exactly the keys event,
\* cap_reason, limits, counts_seen, counts_returned with enumerated strings
\* and integers as values, the cap reason of the response (MAX_PAYLOAD_BYTES
\* for a size rejection) and the number of findings returned (0 for a size
\* rejection)
C15_BufferMatchesCalls ==
    LET audited == SelectSeq(log, Audited)
    IN  /\ Len(events) = Len(audited)
        /\ \A k \in DOMAIN events : EventOfCall(events[k], audited[k])

\* a size rejection followed by an ingestion capped at two findings of one
\* host: the buffer holds the two events in that order
C15_Witness ==
    /\ pc = "idle"
    /\ Len(log) = 2
    /\ SizeRejected(log[1])
    /\ ReturnedCaps(log[2])
    /\ Len(events) = 2
    /\ events[1].cap_reason = MAX_PAYLOAD_BYTES
    /\ events[1].counts_seen = [payload_bytes |-> 17]
    /\ events[2].cap_reason = MAX_FINDINGS
    /\ events[2].counts_returned.findings_returned = 2
    /\ events[2].counts_returned.hosts_returned = 1

---------------------------------------------------------------------------
(* C14: a failing audit log and the ingestion path *)

\* the step is the one in which a call of ingest returns
CallReturns == Len(log') = Len(log) + 1

\* NmapIngestResource.ingest(req) ending before parser.parse while every
\* operation on the audit log succeeds: what it returns and leaves in the
\* buffer
HealthyServe(req) ==
    LET pro == ResourcePrologue(req, env)
        rec == RecordAll(events, CurrentAudit, pro.emitted, audit_max_bytes, {},
                         warning_interval, monotonic)
    IN  [reply |-> IF rec.raised THEN Uncaught ELSE pro.resp, events |-> rec.events]

\* the same for the rest of the call after parser.parse has returned
HealthyFinish ==
    LET result == parser_result[1]
        limited == apply_findings_limit(result, limit_config)
        resp == IngestResponse(next_uuid, request.format, request.payload.bytes,
                               Sha256Hex(request.payload), result,
                               limited.final_findings, limited.metadata)
        rec == RecordAll(events, CurrentAudit, limited.emitted, audit_max_bytes, {},
                         warning_interval, monotonic)
    IN  [reply |-> IF rec.raised THEN Uncaught
                   ELSE IF parser = "custom"
                           \/ schema_registry_validate(response_schema, resp)
                   THEN resp
                   ELSE sanitized_error(RESPONSE_VALIDATION_FAILED,
                            "Service output did not meet the public contract."),
         events |-> rec.events]

\* what the returning call returns and leaves in the buffer over a healthy
\* audit log
HealthyOutcome == IF pc = "idle" THEN HealthyServe(request') ELSE HealthyFinish

\* C14: whatever operations of the durable audit log fail (directory
\* creation, the existence probe, stat, removal of the old backup, the
\* rotation rename, open, write), record_cap_event returns normally, the
\* event is appended to the in-memory buffer, and the ingestion returns the
\* response it returns with a healthy log
C14_AuditFailuresStayLocal ==
    [][CallReturns =>
         /\ response' # <<Uncaught>>
         /\ response' = <<HealthyOutcome.reply>>
         /\ events' = HealthyOutcome.events
         /\ Len(events') = Len(SelectSeq(log', Audited))]_vars

\* two audited calls over a log whose rotation rename and whose write fail:
\* both failures were met by both calls, no line was added to the log, both
\* events are in the buffer, and the second call returned its capped findings
C14_Witness ==
    /\ pc = "idle"
    /\ disk_faults = {"rename", "write"}
    /\ Len(log) = 2
    /\ SizeRejected(log[1])
    /\ ReturnedCaps(log[2])
    /\ Len(events) = 2
    /\ \E i \in DOMAIN warnings : warnings[i].key = "rotate"
    /\ \E i \in DOMAIN warnings : warnings[i].key = "write"
    /\ audit_file = <<<<OldLine>>>>
    /\ audit_backup = <<>>

---------------------------------------------------------------------------
(* C16: rotation of the audit log *)

\* the step is append_audit_event(event) on a healthy log with a threshold
HealthyAppend(event) == AppendAuditEvent(event, {}) /\ audit_max_bytes # <<>>

\* C16: append_audit_event with a positive rotation threshold and no I/O
\* failure: when the size of the active log is at or above the threshold,
\* afterwards the .1 backup holds exactly the previous contents of the active
\* log (an earlier backup is gone) and the active log holds exactly the new
\* line; when it is below, the new line is appended after the existing
\* contents and the backup is unchanged
C16_RotationAtThreshold ==
    [][\A event \in AuditEvents :
         HealthyAppend(event) =>
           /\ audit_max_bytes[1] > 0
           /\ IF FileSize(Contents(audit_file)) >= audit_max_bytes[1]
              THEN /\ audit_backup' = <<Contents(audit_file)>>
                   /\ audit_file' = <<<<JsonLine(event)>>>>
              ELSE /\ audit_file' = <<Contents(audit_file) \o <<JsonLine(event)>>>>
                   /\ audit_backup' = audit_backup]_vars

\* under a threshold one byte above the size of one line: the log was rotated
\* when it held two lines, which are now the backup, and a line was then
\* appended to the new log without a rotation
C16_Witness ==
    /\ audit_max_bytes = <<FileSize(<<JsonLine(eventPayload)>>) + 1>>
    /\ audit_backup = <<<<JsonLine(eventPayload), JsonLine(eventHosts)>>>>
    /\ audit_file = <<<<JsonLine(eventPayload), JsonLine(eventHosts)>>>>
    /\ disk_faults = {}

---------------------------------------------------------------------------
(* C17: rate limiting of the warnings *)

\* the failures of the kind of failure i that logged a warning before it
EmittedBefore(i) ==
    { j \in 1..(i - 1) : warnings[j].key = warnings[i].key /\ warnings[j].emitted }

\* the greatest element of a non-empty set of numbers
Greatest(S) == CHOOSE x \in S : \A y \in S : y <= x

\* C17: with a warning interval I > 0 and failures at non-decreasing times, a
\* failure of kind k at time t logs a warning if and only if no warning for k
\* was logged before or the last one was logged at a time <= t - I; so two
\* warnings of one kind are at least I apart, the first failure of each kind
\* logs a warning, and a warning of one kind never holds back one of another
C17_WarningsRateLimitedPerKind ==
    /\ warning_interval > 0
    /\ \A i \in DOMAIN warnings :
         /\ warnings[i].emitted <=>
              \/ EmittedBefore(i) = {}
              \/ warnings[Greatest(EmittedBefore(i))].at <= warnings[i].at - warning_interval
         /\ i > 1 => warnings[i - 1].at <= warnings[i].at
         /\ \A j \in EmittedBefore(i) :
              warnings[i].emitted => warnings[i].at - warnings[j].at >= warning_interval
         /\ (\A j \in 1..(i - 1) : warnings[j].key # warnings[i].key) => warnings[i].emitted

\* a warning of one kind, a failure of that kind held back within the
\* interval, a warning of another kind logged within that interval, and a
\* second warning of the first kind once the interval had passed
C17_Witness ==
    /\ Len(warnings) = 4
    /\ warning_interval = 2
    /\ warnings[1].key = "write" /\ warnings[1].emitted
    /\ warnings[2].key = "write" /\ ~warnings[2].emitted
    /\ warnings[3].key = "rotate" /\ warnings[3].emitted
    /\ warnings[3].at - warnings[1].at < warning_interval
    /\ warnings[4].key = "write" /\ warnings[4].emitted
    /\ warnings[4].at - warnings[1].at >= warning_interval

---------------------------------------------------------------------------
(* C18: the retention store *)

\* the number of persist_ingest_record calls made, and of records retained
PersistCalls == next_uuid - 1
Retained == IF PersistCalls < 16 THEN PersistCalls ELSE 16

\* a limit clamped into [0, 16]; 16 when none is given
ClampedLimit(limit) ==
    IF limit = <<>> THEN 16
    ELSE IF limit[1] < 0 THEN 0
    ELSE IF limit[1] > 16 THEN 16
    ELSE limit[1]

\* C18: after n persist_ingest_record calls from an empty store the store
\* holds exactly the most recent min(n, 16) records in insertion order, each
\* as it was created, and never more than 16; list_ingests returns them
\* newest first, truncated to the limit clamped into [0, 16] (16 when none is
\* given); get_ingest returns a stored record by its ingest_id and nothing
\* for an evicted or unknown id
C18_RetentionRing ==
    /\ Len(store) = Retained
    /\ Len(store) <= 16
    /\ \A k \in 1..Retained : store[k] = PersistedRecord(PersistCalls - Retained + k)
    /\ \A limit \in StoreListLimits :
         LET listed == list_ingests(store, limit)
         IN  /\ Len(listed) = IF ClampedLimit(limit) < Retained
                              THEN ClampedLimit(limit) ELSE Retained
             /\ \A k \in DOMAIN listed : listed[k] = PersistedRecord(PersistCalls - k + 1)
    /\ \A ingest_id \in StoreGetIds :
         get_ingest(store, ingest_id) =
             IF PersistCalls - Retained < ingest_id /\ ingest_id <= PersistCalls
             THEN <<PersistedRecord(ingest_id)>>
             ELSE <<>>
    /\ response # <<>> /\ "ingests" \in DOMAIN response[1] =>
         /\ response[1].count = Len(response[1].ingests)
         /\ \A k \in DOMAIN response[1].ingests :
              \E n \in 1..PersistCalls : response[1].ingests[k] = PersistedRecord(n)

\* eighteen records were persisted: the first two are evicted, and a listing
\* without a limit has returned the sixteen retained ones, the newest first
C18_Witness ==
    /\ PersistCalls = 18
    /\ store[1].ingest_id = 3
    /\ get_ingest(store, 2) = <<>>
    /\ response # <<>>
    /\ "ingests" \in DOMAIN response[1]
    /\ response[1].count = 16
    /\ response[1].ingests[1].ingest_id = 18
    /\ response[1].ingests[16].ingest_id = 3

---------------------------------------------------------------------------
(* C19: the retention store and the answer of an ingest request *)

\* the last ingest request has been answered
LastAnswered == pc = "idle" /\ log # <<>>

---------------------------------------------------------------------------
(* C20: the cap reason reported when several limits are hit *)

\* the limits hit during the parse of the request, each once
LimitsHit == {marked[i] : i \in DOMAIN marked}

\* the request has been answered after a parse that hit more than one of the
\* host, ports-per-host and findings limits
SeveralLimitsHit ==
    /\ pc = "idle"
    /\ log # <<>>
    /\ IsIngestSuccess(log[Len(log)].response)
    /\ Cardinality(LimitsHit) > 1

\* the one cap reason the response reports
ReportedReason == log[Len(log)].response.metadata.caps.cap_reason

\* the statement as claimed: MAX_FINDINGS if the findings limit was hit,
\* otherwise MAX_PORTS if the ports-per-host limit was hit, otherwise
\* MAX_HOSTS
C20_FindingsThenPortsThenHosts ==
    SeveralLimitsHit =>
        /\ "metadata" \in DOMAIN log[Len(log)].response
        /\ ReportedReason =
             IF MAX_FINDINGS \in LimitsHit THEN MAX_FINDINGS
             ELSE IF MAX_PORTS \in LimitsHit THEN MAX_PORTS
             ELSE MAX_HOSTS

\* C20: when more than one of the host, ports-per-host and findings limits is
\* hit during one ingestion with the minimal real parser, exactly one cap
\* reason is reported and it is the one of the limit hit last: MAX_FINDINGS
\* if the findings limit was hit, otherwise MAX_HOSTS if the host limit was
\* hit, otherwise MAX_PORTS
C20_LastLimitHitWins ==
    SeveralLimitsHit =>
        /\ "metadata" \in DOMAIN log[Len(log)].response
        /\ ReportedReason \in {MAX_HOSTS, MAX_PORTS, MAX_FINDINGS}
        /\ ReportedReason = marked[Len(marked)]
        /\ ReportedReason =
             IF MAX_FINDINGS \in LimitsHit THEN MAX_FINDINGS
             ELSE IF MAX_HOSTS \in LimitsHit THEN MAX_HOSTS
             ELSE MAX_PORTS

\* the ports limit was hit on the first host and the host limit at the
\* second: MAX_HOSTS is reported
C20_Witness ==
    /\ SeveralLimitsHit
    /\ marked = <<MAX_PORTS, MAX_HOSTS>>
    /\ ReportedReason = MAX_HOSTS

---------------------------------------------------------------------------
(* C21: the reason a tracker records *)

\* the counters and the limits of a tracker
Counters(t) == <<t.hosts_processed, t.ports_processed, t.findings_processed>>
Limits(t) == <<t.max_hosts, t.max_ports_per_host, t.max_findings>>

\* the argument of the most recent mark_limit call, None when there was none
LastMarked == IF marked = <<>> THEN None ELSE marked[Len(marked)]

\* C21: for any sequence of mark_limit calls on one tracker, the reason
\* exposed by cap_reason and by the to_cap_info snapshot is the argument of
\* the most recent call (none when mark_limit was never called); mark_limit
\* changes no counter, and no tracker operation clears a recorded reason or
\* resets a counter
C21_MostRecentReasonKept ==
    /\ [](/\ tracker.cap_reason = LastMarked
          /\ to_cap_info(tracker).reason = LastMarked
          /\ Counters(tracker) = <<to_cap_info(tracker).hosts_processed,
                                   to_cap_info(tracker).ports_processed,
                                   to_cap_info(tracker).findings_processed>>)
    /\ [][/\ marked' # marked =>
               /\ Counters(tracker') = Counters(tracker)
               /\ Limits(tracker') = Limits(tracker)
          /\ tracker.cap_reason # None => tracker'.cap_reason # None
          /\ \A i \in 1..3 : Counters(tracker')[i] >= Counters(tracker)[i]]_vars

\* three mark_limit calls with increments in between: the reason of the
\* last call is exposed and the counters stand where the increments left them
C21_Witness ==
    /\ marked = <<MAX_PORTS, MAX_FINDINGS, MAX_HOSTS>>
    /\ tracker.cap_reason = MAX_HOSTS
    /\ to_cap_info(tracker).reason = MAX_HOSTS
    /\ Counters(tracker) = <<2, 2, 1>>

---------------------------------------------------------------------------
(* C22: the counters while the minimal real parser walks a document *)

\* the parser is between the start of its host loop and its return
Walking == pc \in {"host_loop", "port_loop", "parse_return"}

\* the limits the environment configures
Configured == from_env(env)

\* C22: in every state reached while the minimal real parser walks a
\* document, hosts_processed <= max_hosts, the port elements examined under
\* one host (those yielding no finding included) are <= max_ports_per_host,
\* the findings collected are as many as findings_processed and <=
\* max_findings, and once findings_processed has reached max_findings no
\* further port or host is examined
C22_WalkStaysWithinLimits ==
    /\ [](Walking =>
            /\ tracker.hosts_processed <= Configured.max_hosts
            /\ ports_seen <= Configured.max_ports_per_host
            /\ Len(findings) = tracker.findings_processed
            /\ Len(findings) <= Configured.max_findings
            /\ tracker.findings_processed >= Configured.max_findings =>
                   pc = "parse_return")
    /\ [][Walking /\ tracker.findings_processed >= Configured.max_findings =>
              /\ tracker' = tracker
              /\ findings' = findings
              /\ <<host_index, port_index, ports_seen>>' =
                     <<host_index, port_index, ports_seen>>]_vars

\* the second finding of the first host reached a findings limit of two
\* while that host had a third port and two more hosts followed: the walk
\* has stopped there
C22_Witness ==
    /\ pc = "parse_return"
    /\ Configured.max_findings = 2
    /\ tracker.findings_processed = 2
    /\ Len(findings) = 2
    /\ host_index = 1
    /\ Len(request.payload.hosts) = 3
    /\ port_index < Len(request.payload.hosts[1].ports[1])
    /\ tracker.hosts_processed = 1

---------------------------------------------------------------------------
(* C23: the synthetic parser line by line *)

\* the line is passed over: blank, or with an identifier-shaped token
PassedOver(line) == line = <<>> \/ IdentifierSearch(line)

\* the lines that match the PORT_OPEN format, in line order
RECURSIVE MatchingLines(_)
MatchingLines(lines) ==
    IF lines = <<>> THEN <<>>
    ELSE IF ~PassedOver(Head(lines)) /\ PORT_PATTERN(Head(lines))
    THEN <<Head(lines)>> \o MatchingLines(Tail(lines))
    ELSE MatchingLines(Tail(lines))

\* some line is neither passed over nor matching
SomeLineMalformed(lines) ==
    \E i \in DOMAIN lines : ~PassedOver(lines[i]) /\ ~PORT_PATTERN(lines[i])

\* fs has one finding for each of the lines, in their order
OnePerLine(fs, lines) ==
    /\ Len(fs) = Len(lines)
    /\ \A k \in DOMAIN lines :
           /\ fs[k].title = <<"Port", lines[k][2], "open">>
           /\ fs[k].detail = <<ToLower(lines[k][5]), "service noted on TCP/", lines[k][2]>>

\* C23: the synthetic parser returns one finding per line that matches the
\* PORT_OPEN format, in line order; blank lines and lines with an
\* identifier-shaped token give no finding and no error, even when otherwise
\* malformed; any other non-blank line that does not match fails the whole
\* parse with no findings returned, the request is answered with an
\* invalid_input error and no record is persisted
C23_SyntheticLineByLine ==
    [][pc = "parse" /\ parser = "synthetic" =>
          IF SomeLineMalformed(request.payload.lines)
          THEN /\ pc' = "idle"
               /\ parser_result' = parser_result
               /\ log'[Len(log')].parsed = <<>>
               /\ IsError(response'[1])
               /\ response'[1].reason = <<INVALID_INPUT>>
               /\ store' = store
               /\ store' = store_before
          ELSE /\ pc' = "parsed"
               /\ OnePerLine(parser_result'[1].findings,
                             MatchingLines(request.payload.lines))]_vars

\* a payload of a valid line, a malformed line with an identifier and a
\* malformed line without one has been answered with invalid_input, the
\* store empty
C23_Witness ==
    /\ pc = "idle"
    /\ log # <<>>
    /\ request.payload.lines = <<lineSsh, lineJunkIdentifier, lineJunk>>
    /\ IsError(response[1])
    /\ response[1].reason = <<INVALID_INPUT>>
    /\ store = <<>>

---------------------------------------------------------------------------
(* C24: the persisted record against the response *)

\* the record carries what the response reports, the parsed flag in its
\* top-level field, and has no field for finding text
RecordCarries(record, resp) ==
    /\ record.format = resp.format
    /\ record.summary.payload_bytes = resp.summary.payload_bytes
    /\ record.summary.payload_sha256 = resp.summary.payload_sha256
    /\ record.parsed = resp.summary.parsed
    /\ record.findings_count = resp.findings_count
    /\ record.parser_version = resp.parser_version
    /\ DOMAIN record = {"ingest_id", "created_at", "format", "summary", "next_steps",
                        "parser_version", "parsed", "findings_count"}
    /\ DOMAIN record.summary = {"payload_bytes", "payload_sha256", "parsed"}

\* the successful ingestions answered so far
Successes == {i \in DOMAIN log : IsIngestSuccess(log[i].response)}

\* C24: for every successful ingestion the record stored under the response's
\* ingest_id carries the same format, byte count, content digest, parsed
\* flag, findings count and parser version as the response, in every field
\* that carries the parsed flag (the top-level parsed and summary.parsed both
\* equal the response's summary.parsed), and no finding title or detail text
C24_RecordMatchesResponse ==
    \A i \in Successes :
        LET resp == log[i].response
            found == get_ingest(store, resp.ingest_id)
        IN  /\ found # <<>>
            /\ RecordCarries(found[1], resp)
            /\ found[1].summary.parsed = resp.summary.parsed

---------------------------------------------------------------------------
(* C25: a crash inside a rotation *)

\* the lines exist in full at the active path or at the backup path
InFull(lines) ==
    \/ audit_backup = <<lines>>
    \/ /\ audit_file # <<>>
       /\ Len(audit_file[1]) >= Len(lines)
       /\ SubSeq(audit_file[1], 1, Len(lines)) = lines

\* C25: a crash at any point inside a log rotation (before the old backup is
\* deleted, between that deletion and the rename, or between the rename and
\* the append) cannot lose the active log: at every intermediate step the
\* contents the active log had when the rotation began exist in full at the
\* active path or at the .1 backup path
C25_CrashKeepsActiveLog ==
    (rotation.at # "idle" /\ rotation.began # <<>>) => InFull(rotation.began[1])

\* the process stopped between the rename and the append of the first call:
\* no active log, the backup holding what the active log held
C25_Witness ==
    /\ rotation.at = "crashed"
    /\ rotation.began = <<<<OldLine>>>>
    /\ audit_file = <<>>
    /\ audit_backup = rotation.began
    /\ monotonic = 1

---------------------------------------------------------------------------
(* C26: rotation thresholds of zero and below *)

\* the step renames and deletes nothing: the backup path is as it was and the
\* active log has its earlier lines in place, followed by the event's line
NothingRotated ==
    /\ audit_backup' = audit_backup
    /\ audit_file' # <<>>
    /\ Len(audit_file'[1]) = Len(Contents(audit_file)) + 1
    /\ SubSeq(audit_file'[1], 1, Len(Contents(audit_file))) = Contents(audit_file)

\* C26: when the configured rotation threshold is zero or negative, whether
\* it comes from the environment variable or from an AuditConfig installed
\* with set_audit_config, no call to append_audit_event renames or deletes a
\* file: every event is appended to the same active log, whose earlier lines
\* stay in place, and no .1 backup is created
C26_NonPositiveThresholdNeverRotates ==
    [][NothingRotated]_vars

---------------------------------------------------------------------------
(* C27: a cap is reported only when something was left out *)

\* the port elements of a host
PortsOf(host) == IF host.ports = <<>> THEN <<>> ELSE host.ports[1]

\* the port elements of the hosts from position i on
RECURSIVE TotalPorts(_, _)
TotalPorts(hosts, i) ==
    IF i > Len(hosts) THEN 0
    ELSE Len(PortsOf(hosts[i])) + TotalPorts(hosts, i + 1)

\* the ports of a host that give a finding
FindingPorts(host, i) ==
    Cardinality({j \in DOMAIN PortsOf(host) :
                     finding_from_port(PortsOf(host)[j], i - 1, j - 1) # <<>>})

\* the ports that give a finding in the hosts from position i on
RECURSIVE TotalQualifying(_, _)
TotalQualifying(hosts, i) ==
    IF i > Len(hosts) THEN 0
    ELSE FindingPorts(hosts[i], i) + TotalQualifying(hosts, i + 1)

\* every host and port of the document was processed and every finding
\* returned
NothingLeftOut(resp) ==
    /\ tracker.hosts_processed = Len(request.payload.hosts)
    /\ tracker.ports_processed = TotalPorts(request.payload.hosts, 1)
    /\ resp.findings_count = TotalQualifying(request.payload.hosts, 1)

\* C27: a success response reports a cap (metadata.caps present, a cap audit
\* event emitted) only if at least one host, port or finding of the input
\* was left unprocessed or unreturned because of a limit; an input that fits
\* the limits exactly is reported without cap metadata
C27_CapOnlyWhenSomethingLeftOut ==
    (pc = "idle" /\ log # <<>> /\ IsIngestSuccess(response[1])) =>
        (("metadata" \in DOMAIN response[1] \/ events # events_before) =>
             ~NothingLeftOut(response[1]))

---------------------------------------------------------------------------
(* C28: the counts of a success response *)

\* C28: in every success response produced with one of the four built-in
\* parsers, findings_count equals the length of parsed_findings and is <=
\* max_findings, the findings field is the empty list, and summary.parsed is
\* true if and only if findings_count > 0
C28_SuccessCountsAgree ==
    \A i \in Successes :
        LET resp == log[i].response
        IN  /\ resp.findings_count = Len(resp.parsed_findings)
            /\ resp.findings_count <= from_env(env).max_findings
            /\ resp.findings = <<>>
            /\ resp.summary.parsed \in BOOLEAN
            /\ resp.summary.parsed <=> (resp.findings_count > 0)

\* three findings parsed under a findings limit of two were answered with two
\* findings and summary.parsed true, and an empty document with none and
\* summary.parsed false
C28_Witness ==
    /\ pc = "idle"
    /\ \E i \in Successes :
           /\ Len(log[i].parsed[1].findings) = 3
           /\ log[i].response.findings_count = 2
           /\ log[i].response.summary.parsed
    /\ \E i \in Successes :
           /\ log[i].response.findings_count = 0
           /\ ~log[i].response.summary.parsed

---------------------------------------------------------------------------
(* C29: no exception leaves the ingest resource *)

\* the reasons of an error envelope of the ingest resource
IngestErrorReasons == {<<INVALID_INPUT>>, <<PAYLOAD_TOO_LARGE>>, <<RESPONSE_VALIDATION_FAILED>>}

\* resp is a success envelope or an error envelope with a reason of the
\* closed set
IsEnvelope(resp) ==
    \/ IsIngestSuccess(resp)
    \/ IsError(resp) /\ resp.reason \in IngestErrorReasons

\* C29: for every request mapping (one with a missing format key included),
\* every payload and every environment configuration, NmapIngestResource.ingest
\* returns a success envelope or an error envelope with a reason from the
\* closed set; it never lets an exception propagate to the caller
C29_NoExceptionPropagates ==
    \A i \in DOMAIN log : IsEnvelope(log[i].response)

---------------------------------------------------------------------------
(* C30: two processes persisting their records *)

\* both calls have returned
BothDone == \A w \in Writers : writers[w].at = "done"

\* the records of both calls are in the store and retrievable by their id
BothKept ==
    \A w \in Writers :
        get_ingest(store, writers[w].record[1].ingest_id) = writers[w].record

\* one of the calls began after the other had returned
OneAfterTheOther == \E w \in Writers : writers[w].after # {}

\* C30 as stated: when two successful ingestions persist their records
\* concurrently, with the load, append and save steps interleaved in any
\* order and fewer than 15 records stored beforehand, both records are in the
\* store afterwards and both are retrievable by their ingest_id
C30_ConcurrentPersistsKeepBoth ==
    (BothDone /\ ~OneAfterTheOther) => BothKept

\* C30 amended: when two successful ingestions persist their records one
\* after the other, the second call beginning after the first has returned,
\* with fewer than 15 records stored beforehand, both records are in the
\* store afterwards and both are retrievable by their ingest_id
C30_SuccessivePersistsKeepBoth ==
    (BothDone /\ OneAfterTheOther) => (BothKept /\ Len(store) >= 2)

\* the second process began after the first had returned, from a record file
\* of two records: the store holds four records, the two new ones last
C30_Witness ==
    /\ BothDone
    /\ writers[2].after = {1}
    /\ Len(store) = 4
    /\ store[3] = writers[1].record[1]
    /\ store[4] = writers[2].record[1]

===========================================================================
